---- MODULE Spec2Model ----
(***************************************************************************)
(* A model of oas2tosca: the conversion of an OpenAPI/Swagger document     *)
(* into TOSCA profiles (src/oas2tosca/swagger.py, swagger2.py,             *)
(* swagger3.py, __main__.py and src/profile.py).                           *)
(*                                                                         *)
(* Python strings are sequences of one-character strings, so that split,   *)
(* join, slicing and startswith are computed and not assumed.  Python      *)
(* dicts that the code iterates (definitions, properties, paths, the       *)
(* profile map, a profile's dependencies) are ordered mappings: sequences  *)
(* of <<key, value>> pairs with distinct keys.  A schema object is a       *)
(* record whose DOMAIN is the set of keywords it carries; the keywords     *)
(* '$ref' and 'x-swagger-router-model' are the fields ref and              *)
(* router_model.                                                           *)
(*                                                                         *)
(* A local variable of the code is bound with With(value, LAMBDA v : ...), *)
(* which evaluates its value once.                                         *)
(***************************************************************************)
EXTENDS Integers, Sequences, FiniteSets, TLC

VARIABLES
    data,             \* Swagger.data: the document (read-only during a run)
    flavor,           \* which converter main() built: "none", "2", "3"
    pc,               \* position of main()/convert()
    exitcode,         \* argument of exit(), 0 while running or finished
    idx,              \* position of the loop over schemas / paths
    profiles,         \* Swagger.profiles: ordered mapping namespace -> Profile
    node_types,       \* Swagger.node_types
    data_types,       \* Swagger.data_types
    deferred_schemas, \* Swagger.deferred_schemas
    drained,          \* entries of deferred_schemas the drain loop has taken
    cur,              \* the entry the drain loop is at
    stack,            \* frames of create_data_type_from_schema in progress
    log,              \* the set of messages handed to logger
    arg,              \* input of the function under test (pure specifications)
    res               \* its result

runVars == <<data, flavor, pc, exitcode, idx, profiles, node_types, data_types,
             deferred_schemas, drained, cur, stack, log>>
pureVars == <<arg, res>>
vars == <<data, flavor, pc, exitcode, idx, profiles, node_types, data_types,
          deferred_schemas, drained, cur, stack, log, arg, res>>

(***************************************************************************)
(* Strings                                                                 *)
(***************************************************************************)
With(value, Body(_)) == Body(value)

Min(a, b) == IF a < b THEN a ELSE b

\* the empty string ''
Empty == <<>>

\* s[:n]
Slice(s, n) == SubSeq(s, 1, Min(n, Len(s)))

\* s.startswith(p)
StartsWith(s, p) == Len(p) <= Len(s) /\ SubSeq(s, 1, Len(p)) = p

\* the index of the first sep in s, 0 when there is none
FirstIndex(s, sep) ==
    IF \E i \in 1..Len(s) : s[i] = sep
    THEN CHOOSE i \in 1..Len(s) : s[i] = sep /\ \A j \in 1..(i-1) : s[j] # sep
    ELSE 0

\* s.split(sep)
RECURSIVE split(_, _)
split(s, sep) ==
    With(FirstIndex(s, sep), LAMBDA i :
        IF i = 0 THEN <<s>>
        ELSE <<SubSeq(s, 1, i-1)>> \o split(SubSeq(s, i+1, Len(s)), sep))

\* sep.join(parts)
RECURSIVE join(_, _)
join(parts, sep) ==
    IF Len(parts) = 0 THEN <<>>
    ELSE IF Len(parts) = 1 THEN parts[1]
    ELSE parts[1] \o <<sep>> \o join(Tail(parts), sep)

(***************************************************************************)
(* Ordered mappings (dict)                                                 *)
(***************************************************************************)
Keys(m) == {m[i][1] : i \in 1..Len(m)}
HasKey(m, k) == \E i \in 1..Len(m) : m[i][1] = k
Get(m, k) == m[CHOOSE i \in 1..Len(m) : m[i][1] = k][2]
\* an entry that is added whether or not the key is there
put_new(m, k, v) == Append(m, <<k, v>>)

\* m[k] = v
Put(m, k, v) ==
    IF HasKey(m, k)
    THEN [i \in 1..Len(m) |-> IF m[i][1] = k THEN <<k, v>> ELSE m[i]]
    ELSE Append(m, <<k, v>>)
\* k in schema, for a schema object
Has(s, k) == k \in DOMAIN s

(***************************************************************************)
(* Schema names                                                            *)
(***************************************************************************)
V1 == <<"v", "1">>
V2 == <<"v", "2">>

\* a version test that knows 'v1' only
is_v1(segment) == Slice(segment, 2) = V1

\* whether a segment is taken for a version: it starts with 'v1' or 'v2'
IsVersion(segment) == Slice(segment, 2) = V1 \/ Slice(segment, 2) = V2

\* a parse whose prefix is the first segment of the name
first_segment_prefix(schema_name, schema) ==
    With(split(IF Has(schema, "router_model") THEN schema.router_model
               ELSE schema_name, "."), LAMBDA sp :
        IF Len(sp) < 2 THEN <<Empty, Empty, sp[1], Empty>>
        ELSE IF Len(sp) = 2 THEN <<sp[1], Empty, sp[2], sp[1]>>
        ELSE IF IsVersion(sp[Len(sp)-1])
             THEN <<join(SubSeq(sp, 1, Len(sp)-2), "."), sp[Len(sp)-1], sp[Len(sp)], sp[1]>>
             ELSE <<join(SubSeq(sp, 1, Len(sp)-1), "."), Empty, sp[Len(sp)], sp[1]>>)

\* Swagger.parse_schema_name(schema_name, schema): (profile, version, name, prefix)
Swagger_parse_schema_name(schema_name, schema) ==
    With(IF Has(schema, "router_model") THEN schema.router_model ELSE schema_name,
         LAMBDA model_name :
    With(split(model_name, "."), LAMBDA sp :
    With(Len(sp), LAMBDA length :
        IF length < 2 THEN <<Empty, Empty, model_name, Empty>>
        ELSE IF length = 2 THEN <<sp[1], Empty, sp[2], sp[1]>>
        ELSE IF IsVersion(sp[length-1])
             THEN <<join(SubSeq(sp, 1, length-2), "."), sp[length-1],
                    sp[length], sp[length-2]>>
             ELSE <<join(SubSeq(sp, 1, length-1), "."), Empty,
                    sp[length], sp[length-1]>>)))

\* profile.parse_schema_name(schema_name): (group, version, kind, prefix)
profile_parse_schema_name(schema_name) ==
    With(split(schema_name, "."), LAMBDA sp :
    With(Len(sp), LAMBDA length :
        IF length < 3 THEN <<Empty, Empty, schema_name, Empty>>
        ELSE IF IsVersion(sp[length-1])
             THEN <<join(SubSeq(sp, 1, length-2), "."), sp[length-1],
                    sp[length], sp[length-2]>>
             ELSE <<join(SubSeq(sp, 1, length-1), "."), Empty,
                    sp[length], sp[length-1]>>))

(***************************************************************************)
(* Keys and pointers of the document                                       *)
(***************************************************************************)
K_swagger == <<"s","w","a","g","g","e","r">>
K_openapi == <<"o","p","e","n","a","p","i">>
K_info == <<"i","n","f","o">>
K_paths == <<"p","a","t","h","s">>
K_definitions == <<"d","e","f","i","n","i","t","i","o","n","s">>
K_components == <<"c","o","m","p","o","n","e","n","t","s">>
K_schemas == <<"s","c","h","e","m","a","s">>

\* the prefix Profile.get_ref strips: "#/definitions/"
DefinitionsPrefix == <<"#", "/">> \o K_definitions \o <<"/">>

(***************************************************************************)
(* Swagger.get_referenced_schema                                           *)
(***************************************************************************)
\* the loop "referenced = referenced[name]" over split[1:]; every object it
\* walks through is a mapping
RECURSIVE Walk(_, _)
Walk(referenced, tokens) ==
    IF Len(tokens) = 0 THEN [ok |-> TRUE, value |-> referenced]
    ELSE IF ~HasKey(referenced, tokens[1]) THEN [ok |-> FALSE]
    ELSE Walk(Get(referenced, tokens[1]), Tail(tokens))

\* ret = "None": the function returned None (and logged);
\* ret = "raise": it raised exc; ret = "tuple": it returned (name, schema)
get_referenced_schema(doc, ref) ==
    With(split(ref, "/"), LAMBDA sp :
        IF sp[1] # <<"#">>
        THEN [ret |-> "None", logs |-> {<<"error", "not a local reference", ref>>}]
        ELSE IF Len(sp) = 1
        THEN [ret |-> "raise", exc |-> "UnboundLocalError", logs |-> {}]
        ELSE With(Walk(doc, Tail(sp)), LAMBDA w :
             IF ~w.ok THEN [ret |-> "raise", exc |-> "KeyError", logs |-> {}]
             ELSE [ret |-> "tuple", name |-> sp[Len(sp)], schema |-> w.value,
                   logs |-> {}]))

(***************************************************************************)
(* The three-slot lookup of a property's referenced schema: '$ref', then   *)
(* items.'$ref', then additionalProperties.'$ref'.  A KeyError (the        *)
(* keyword is absent, or the pointer does not resolve) moves on to the     *)
(* next slot; unpacking a None result is a TypeError, which no slot        *)
(* catches.                                                                *)
(***************************************************************************)
Slots == <<"ref", "items", "additionalProperties">>

\* the pointer a slot holds: [has |-> FALSE] when reading it is a KeyError
SlotRef(property_schema, slot) ==
    IF slot = "ref"
    THEN IF Has(property_schema, "ref")
         THEN [has |-> TRUE, ref |-> property_schema.ref] ELSE [has |-> FALSE]
    ELSE IF Has(property_schema, slot) /\ Has(property_schema[slot], "ref")
         THEN [has |-> TRUE, ref |-> property_schema[slot].ref]
         ELSE [has |-> FALSE]

\* what a slot makes of the result r of get_referenced_schema
Unpacked(r, slot) ==
    IF r.ret = "None" THEN [out |-> "raise", exc |-> "TypeError", logs |-> r.logs]
    ELSE IF r.ret = "raise" /\ r.exc = "KeyError" THEN [out |-> "next", logs |-> {}]
    ELSE IF r.ret = "raise" THEN [out |-> "raise", exc |-> r.exc, logs |-> {}]
    ELSE [out |-> "found", name |-> r.name, schema |-> r.schema,
          slot |-> slot, logs |-> {}]

\* one slot: "next" (KeyError, go to the next slot), "raise", or "found"
TrySlot(doc, property_schema, slot) ==
    IF ~SlotRef(property_schema, slot).has THEN [out |-> "next", logs |-> {}]
    ELSE Unpacked(get_referenced_schema(doc, SlotRef(property_schema, slot).ref),
                  slot)

\* the slots from s on, where reaching the referenced schema cannot itself
\* raise (dependency collection, deferral): "absent" when no slot resolves
RECURSIVE three_slot(_, _, _)
three_slot(doc, property_schema, s) ==
    IF s > Len(Slots) THEN [out |-> "absent", logs |-> {}]
    ELSE With(TrySlot(doc, property_schema, Slots[s]), LAMBDA t :
         IF t.out = "next" THEN three_slot(doc, property_schema, s + 1) ELSE t)

(***************************************************************************)
(* Profile                                                                 *)
(***************************************************************************)
\* Profile.__init__
Profile(name, version, prefix) ==
    [name |-> name, version |-> version, prefix |-> prefix,
     dependencies |-> <<>>,
     already_has_node_types |-> FALSE, already_has_data_types |-> FALSE,
     out |-> "unopened", closes |-> 0,
     node_records |-> <<>>, data_records |-> <<>>]

\* a dependency whose prefix is that of the last call
last_prefix_wins(profile, dependency_profile, dependency_prefix) ==
    [profile |-> [profile EXCEPT !.dependencies =
                     Put(@, dependency_profile, dependency_prefix)],
     logs |-> {}]

\* Profile.add_dependency: [profile, logs]
add_dependency(profile, dependency_profile, dependency_prefix) ==
    IF HasKey(profile.dependencies, dependency_profile)
    THEN [profile |-> profile,
          logs |-> IF dependency_prefix # Get(profile.dependencies, dependency_profile)
                   THEN {<<"error", "prefix conflicts", dependency_profile>>}
                   ELSE {}]
    ELSE [profile |-> [profile EXCEPT !.dependencies =
                          Append(@, <<dependency_profile, dependency_prefix>>)],
          logs |-> {}]

(***************************************************************************)
(* The converter's state st = [exc, node_types, data_types,                *)
(* deferred_schemas, profiles, stack, logs] is threaded through the        *)
(* operators of swagger.py; exc names the exception that is propagating    *)
(* out of convert(), "none" when there is none.                            *)
(***************************************************************************)
Logged(st, entries) == [st EXCEPT !.logs = @ \cup entries]
Raised(st, exc) == [st EXCEPT !.exc = exc]

(***************************************************************************)
(* Swagger.collect_profile_info_from_schema                                *)
(***************************************************************************)
\* a dependency recorded without looking at the namespaces
depend_always(profile_name, profile, pn) == add_dependency(profile, pn[1], pn[4])

\* "if property_profile and property_profile != profile_name:
\*      profile.add_dependency(property_profile, prefix)" for the schema a
\* slot found
Depend(profile_name, profile, pn) ==
    IF pn[1] # Empty /\ pn[1] # profile_name
    THEN add_dependency(profile, pn[1], pn[4])
    ELSE [profile |-> profile, logs |-> {}]

\* the loop over the properties from position i: [exc, profile, logs]
RECURSIVE collect_properties(_, _, _, _, _)
collect_properties(doc, profile_name, profile, properties, i) ==
    IF i > Len(properties) THEN [exc |-> "none", profile |-> profile, logs |-> {}]
    ELSE With(three_slot(doc, properties[i][2], 1), LAMBDA t :
         IF t.out = "raise"
         THEN [exc |-> t.exc, profile |-> profile, logs |-> t.logs]
         ELSE IF t.out = "absent"
         THEN collect_properties(doc, profile_name, profile, properties, i + 1)
         ELSE With(Depend(profile_name, profile,
                          Swagger_parse_schema_name(t.name, t.schema)), LAMBDA a :
              With(collect_properties(doc, profile_name, a.profile,
                                      properties, i + 1), LAMBDA rest :
                   [rest EXCEPT !.logs = @ \cup a.logs])))

\* the part of collect_profile_info_from_schema after "Get profile object"
collect_into(doc, st, profile_name, profile, schema) ==
    IF ~Has(schema, "properties")
    THEN [st EXCEPT !.profiles = Put(@, profile_name, profile)]
    ELSE With(collect_properties(doc, profile_name, profile, schema.properties, 1),
              LAMBDA c :
              [st EXCEPT !.exc = c.exc,
                         !.profiles = Put(@, profile_name, c.profile),
                         !.logs = @ \cup c.logs])

\* a collection that takes every version
collect_any_version(doc, st, schema_name, schema) ==
    With(Swagger_parse_schema_name(schema_name, schema), LAMBDA pn :
        IF pn[1] = Empty THEN st
        ELSE collect_into(doc, st, pn[1],
                          IF HasKey(st.profiles, pn[1]) THEN Get(st.profiles, pn[1])
                          ELSE Profile(pn[1], pn[2], pn[4]),
                          schema))

collect_profile_info_from_schema(doc, st, schema_name, schema) ==
    With(Swagger_parse_schema_name(schema_name, schema), LAMBDA pn :
        IF pn[1] = Empty THEN st
        ELSE IF pn[2] # Empty /\ pn[2] # V1
        THEN Logged(st, {<<"debug", "Ignoring", schema_name>>})
        ELSE collect_into(doc, st, pn[1],
                          IF HasKey(st.profiles, pn[1]) THEN Get(st.profiles, pn[1])
                          ELSE Profile(pn[1], pn[2], pn[4]),
                          schema))

(***************************************************************************)
(* Rendering (src/profile.py).  What a Profile writes to its profile.yaml  *)
(* is kept as records: one per "<kind>:" block, with the entries written   *)
(* under it.  A record is partial when an exception cut the block short.   *)
(* Descriptions and the x-kubernetes-* metadata are not modelled: no       *)
(* schema of the documents below carries them.                             *)
(***************************************************************************)
T_object == <<"o","b","j","e","c","t">>
T_string == <<"s","t","r","i","n","g">>
T_array == <<"a","r","r","a","y">>
T_integer == <<"i","n","t","e","g","e","r">>
T_number == <<"n","u","m","b","e","r">>
T_boolean == <<"b","o","o","l","e","a","n">>
T_null == <<"n","u","l","l">>
T_list == <<"l","i","s","t">>
T_float == <<"f","l","o","a","t">>
T_DataRoot == <<"t","o","s","c","a",".","d","a","t","a","t","y","p","e","s",".","R","o","o","t">>
T_NodesRoot == <<"t","o","s","c","a",".","n","o","d","e","s",".","R","o","o","t">>
NotFound == <<"n","o","t"," ","f","o","u","n","d">>

\* Profile.get_type
get_type(type) ==
    IF type = T_array THEN T_list
    ELSE IF type = T_object THEN T_DataRoot
    ELSE IF type = T_number THEN T_float
    ELSE type

\* Profile.get_ref: [none |-> TRUE] is a return of None
get_ref(ref) ==
    IF Len(ref) = 0
    THEN [none |-> TRUE, logs |-> {<<"error", "not a ref", ref>>}]
    ELSE IF ref[1] # "#"
    THEN [none |-> TRUE, logs |-> {<<"error", "not a local reference", ref>>}]
    ELSE IF StartsWith(ref, DefinitionsPrefix)
    THEN [none |-> FALSE,
          value |-> SubSeq(ref, Len(DefinitionsPrefix) + 1, Len(ref)),
          logs |-> {}]
    ELSE [none |-> FALSE, value |-> ref,
          logs |-> {<<"error", "not a ref to a definition", ref>>}]

\* Profile.get_entry_schema
get_entry_schema(value) ==
    IF Has(value, "type")
    THEN [none |-> FALSE, value |-> get_type(value.type), logs |-> {}]
    ELSE IF Has(value, "ref") THEN get_ref(value.ref)
    ELSE [none |-> FALSE, value |-> NotFound,
          logs |-> {<<"error", "no entry schema found", Empty>>}]

\* a type name that is never qualified
Unqualified(profile, pn) == pn[3]

\* "if prefix and (prefix != self.prefix): prefix:kind else: kind", for the
\* tuple pn that parse_schema_name returned
Qualified(profile, pn) ==
    IF pn[4] # Empty /\ pn[4] # profile.prefix
    THEN pn[4] \o <<":">> \o pn[3]
    ELSE pn[3]

\* the type name written for a referenced schema name
type_name_of(profile, schema_name) ==
    Qualified(profile, profile_parse_schema_name(schema_name))

\* the entry_schema line, for the result e of get_entry_schema
EntrySchema(profile, e) ==
    IF e.none
    THEN [exc |-> "AttributeError", entries |-> <<>>, logs |-> e.logs]
    ELSE [exc |-> "none",
          entries |-> <<  <<"entry_schema", type_name_of(profile, e.value)>>  >>,
          logs |-> e.logs]

\* Profile.process_keywords_for_array: [exc, entries, logs]
process_keywords_for_array(profile, name, schema) ==
    IF Has(schema, "items")
    THEN EntrySchema(profile, get_entry_schema(schema.items))
    ELSE [exc |-> "none", entries |-> <<>>, logs |-> {}]

\* truth value of schema[k] (None when the keyword is absent): of a list
\* or string, and of a number
TruthySeq(schema, k) == Has(schema, k) /\ schema[k] # <<>>
TruthyInt(schema, k) == Has(schema, k) /\ schema[k] # 0

\* '%s' % None
NoneStr == <<"N","o","n","e">>

\* Profile.process_keywords_for_string: [exc, entries, logs]; the entries
\* are the constraints block when one is written
process_keywords_for_string(name, schema) ==
    LET enum == TruthySeq(schema, "enum")
        maxLength == TruthyInt(schema, "maxLength")
        minLength == TruthyInt(schema, "minLength")
        pattern == TruthySeq(schema, "pattern")
        logs == IF Has(schema, "format")
                THEN {<<"error", "format not supported for strings", Empty>>}
                ELSE {}
        c1 == IF enum THEN <<  <<"valid_values", schema.enum>>  >> ELSE <<>>
        c2 == c1 \o (IF maxLength THEN <<  <<"max_length", schema.maxLength>>  >>
                     ELSE <<>>)
        c3 == c2 \o (IF enum
                     THEN <<  <<"pattern", IF Has(schema, "pattern")
                                          THEN schema.pattern ELSE NoneStr>>  >>
                     ELSE <<>>)
    IN  IF ~(enum \/ maxLength \/ minLength \/ pattern)
        THEN [exc |-> "none", entries |-> <<>>, logs |-> logs]
        ELSE IF minLength
        \* emit_min_length is declared without self: the call is a TypeError
        THEN [exc |-> "TypeError", entries |-> <<  <<"constraints", c2>>  >>,
              logs |-> logs]
        ELSE [exc |-> "none", entries |-> <<  <<"constraints", c3>>  >>,
              logs |-> logs]

\* the lines add_property writes before the type: required, default
PropertyHead(property_name, schema, required) ==
    <<  <<"required", property_name \in required>>  >>
    \o (IF Has(schema, "default") THEN <<  <<"default", schema.default>>  >> ELSE <<>>)

\* a property whose type line is t, followed by what the keywords k added
Typed(property_name, head, t, k) ==
    [exc |-> k.exc,
     rec |-> [name |-> property_name,
              entries |-> head \o <<  <<"type", t>>  >> \o k.entries],
     logs |-> k.logs]

NoKeywords == [exc |-> "none", entries |-> <<>>, logs |-> {}]

\* the '$ref' branch of add_property, for the result r of get_ref
Referenced(profile, property_name, head, r) ==
    IF r.none
    THEN [exc |-> "AttributeError",
          rec |-> [name |-> property_name, entries |-> head], logs |-> r.logs]
    ELSE [exc |-> "none",
          rec |-> [name |-> property_name,
                   entries |-> head \o <<  <<"type", type_name_of(profile, r.value)>>  >>],
          logs |-> r.logs]

\* Profile.add_property: [exc, rec, logs]; rec.entries are the entries
\* written under the property name, in order
add_property(profile, property_name, schema, required) ==
    With(PropertyHead(property_name, schema, required), LAMBDA head :
        IF Has(schema, "type")
        THEN IF schema.type = T_object
             THEN Typed(property_name, head, T_DataRoot,
                        [NoKeywords EXCEPT !.logs =
                            {<<"info", "UNEXPECTED property of type object", Empty>>}])
             ELSE IF schema.type = T_string
             THEN Typed(property_name, head, T_string,
                        process_keywords_for_string(property_name, schema))
             ELSE IF schema.type = T_array
             THEN Typed(property_name, head, T_list,
                        process_keywords_for_array(profile, property_name, schema))
             ELSE IF schema.type = T_integer
             THEN Typed(property_name, head, T_integer, NoKeywords)
             ELSE IF schema.type = T_number
             THEN Typed(property_name, head, T_float, NoKeywords)
             ELSE IF schema.type = T_boolean
             THEN Typed(property_name, head, T_boolean, NoKeywords)
             ELSE IF schema.type = T_null
             THEN Typed(property_name, head, T_null, NoKeywords)
             ELSE [exc |-> "none",
                   rec |-> [name |-> property_name, entries |-> head],
                   logs |-> {<<"error", "unknown type", schema.type>>}]
        ELSE IF Has(schema, "ref")
        THEN Referenced(profile, property_name, head, get_ref(schema.ref))
        ELSE Typed(property_name, head, T_string, NoKeywords))

\* Profile.add_properties, from position i: [exc, recs, logs]
RECURSIVE add_properties(_, _, _, _)
add_properties(profile, properties, required, i) ==
    IF i > Len(properties) THEN [exc |-> "none", recs |-> <<>>, logs |-> {}]
    ELSE With(add_property(profile, properties[i][1], properties[i][2], required),
              LAMBDA a :
         IF a.exc # "none"
         THEN [exc |-> a.exc, recs |-> <<a.rec>>, logs |-> a.logs]
         ELSE With(add_properties(profile, properties, required, i + 1),
                   LAMBDA rest :
                   [exc |-> rest.exc, recs |-> <<a.rec>> \o rest.recs,
                    logs |-> a.logs \cup rest.logs]))

\* Profile.process_keywords_for_object: [exc, entries, logs]
process_keywords_for_object(profile, name, schema) ==
    IF Has(schema, "properties")
    THEN With(add_properties(profile, schema.properties,
                             IF Has(schema, "required") THEN schema.required ELSE {},
                             1), LAMBDA a :
              [exc |-> a.exc, entries |-> <<  <<"properties", a.recs>>  >>,
               logs |-> a.logs])
    ELSE NoKeywords

\* Profile.emit_node_type: [exc, profile, logs]
emit_node_type(profile, kind, schema) ==
    With(process_keywords_for_object(profile, kind, schema), LAMBDA k :
        [exc |-> k.exc,
         profile |-> [profile EXCEPT
                        !.already_has_node_types = TRUE,
                        !.node_records = Append(@,
                            [kind |-> kind,
                             entries |-> <<  <<"derived_from", T_NodesRoot>>  >>
                                         \o k.entries,
                             partial |-> k.exc # "none"])],
         logs |-> (IF Has(schema, "default")
                   THEN {<<"error", "'default' not supported", kind>>} ELSE {})
                  \cup (IF Has(schema, "enum")
                        THEN {<<"error", "'enum' not supported", kind>>} ELSE {})
                  \cup k.logs])

\* the derived_from line t in front of what the keywords k added
Derived(t, k) == [k EXCEPT !.entries = <<  <<"derived_from", t>>  >> \o @]

\* the type dispatch of emit_data_type: [exc, entries, logs]
data_type_keywords(profile, kind, schema) ==
    IF ~Has(schema, "type") THEN Derived(T_string, NoKeywords)
    ELSE IF schema.type = T_object
         THEN process_keywords_for_object(profile, kind, schema)
    ELSE IF schema.type = T_string
         THEN Derived(T_string, process_keywords_for_string(kind, schema))
    ELSE IF schema.type = T_array
         THEN Derived(T_list, process_keywords_for_array(profile, kind, schema))
    ELSE IF schema.type = T_integer THEN Derived(T_integer, NoKeywords)
    ELSE IF schema.type = T_number THEN Derived(T_float, NoKeywords)
    ELSE IF schema.type = T_boolean THEN Derived(T_boolean, NoKeywords)
    ELSE IF schema.type = T_null THEN Derived(T_null, NoKeywords)
    ELSE [NoKeywords EXCEPT !.logs = {<<"error", "unknown type", schema.type>>}]

\* Profile.emit_data_type: [exc, profile, logs]
emit_data_type(profile, kind, schema) ==
    With(data_type_keywords(profile, kind, schema), LAMBDA k :
        [exc |-> k.exc,
         profile |-> [profile EXCEPT
                        !.already_has_data_types = TRUE,
                        !.data_records = Append(@,
                            [kind |-> kind, entries |-> k.entries,
                             partial |-> k.exc # "none"])],
         logs |-> (IF Has(schema, "default")
                   THEN {<<"error", "'default' not supported", kind>>} ELSE {})
                  \cup k.logs])

(***************************************************************************)
(* Materialization of node types (src/oas2tosca/swagger.py).  Every        *)
(* emitted record carries the schema name it was made for (source), which  *)
(* the output file does not hold.                                          *)
(***************************************************************************)
Props(schema) == IF Has(schema, "properties") THEN schema.properties ELSE <<>>

\* the last record of a bucket gets its source
Sourced(records, schema_name) ==
    [i \in 1..Len(records) |->
        IF i = Len(records)
        THEN [kind |-> records[i].kind, entries |-> records[i].entries,
              partial |-> records[i].partial, source |-> schema_name]
        ELSE records[i]]

\* the schemas that the properties reference are marked as data types at
\* once, and not deferred
create_at_once(doc, st, properties, i) ==
    [st EXCEPT !.data_types = @ \cup
        {three_slot(doc, properties[k][2], 1).name :
            k \in {j \in 1..Len(properties) :
                      three_slot(doc, properties[j][2], 1).out = "found"}}]

\* Swagger.create_data_types_for_properties(schema, defer=True), from
\* position i
RECURSIVE defer_properties(_, _, _, _)
defer_properties(doc, st, properties, i) ==
    IF i > Len(properties) THEN st
    ELSE With(three_slot(doc, properties[i][2], 1), LAMBDA t :
         IF t.out = "raise" THEN Raised(Logged(st, t.logs), t.exc)
         ELSE IF t.out = "found"
         THEN defer_properties(doc,
                  [st EXCEPT !.deferred_schemas = @ \cup {t.name}],
                  properties, i + 1)
         ELSE defer_properties(doc, st, properties, i + 1))

\* a visited check that never finds the name
never_seen(st, schema_name) == FALSE

\* the check "schema_name in self.node_types" of create_node_type_from_schema
node_type_seen(st, schema_name) == schema_name \in st.node_types

\* "profile = self.profiles[group]; profile.emit_node_type(kind, schema)"
node_type_emit(st, schema_name, schema, pn) ==
    IF st.exc # "none" THEN st
    ELSE IF ~HasKey(st.profiles, pn[1]) THEN Raised(st, "KeyError")
    ELSE With(emit_node_type(Get(st.profiles, pn[1]), pn[3], schema), LAMBDA e :
         [st EXCEPT !.profiles = Put(@, pn[1],
                        [e.profile EXCEPT !.node_records = Sourced(@, schema_name)]),
                    !.exc = e.exc,
                    !.logs = @ \cup e.logs])

\* a request that defers the properties of the schema without looking at its
\* 'type'
defer_unchecked(doc, st, schema_name, schema) ==
    defer_properties(doc, [st EXCEPT !.node_types = @ \cup {schema_name}],
                     Props(schema), 1)

\* Swagger.create_node_type_from_schema
create_node_type_from_schema(doc, st, schema_name, schema) ==
    IF node_type_seen(st, schema_name)
    THEN Logged(st, {<<"debug", "duplicate", schema_name>>})
    ELSE With([st EXCEPT !.node_types = @ \cup {schema_name}], LAMBDA s1 :
         With(Swagger_parse_schema_name(schema_name, schema), LAMBDA pn :
         IF ~Has(schema, "type")
         THEN Logged(s1, {<<"error", "node type without a type", schema_name>>})
         ELSE IF schema.type # T_object
         THEN Logged(s1, {<<"error", "node type with type", schema_name>>})
         ELSE IF pn[2] # Empty /\ pn[2] # V1
         THEN Logged(s1, {<<"debug", "Ignoring version", schema_name>>})
         ELSE node_type_emit(
                  defer_properties(doc,
                      Logged(s1, {<<"error", "node type without group version kind",
                                    schema_name>>}),
                      Props(schema), 1),
                  schema_name, schema, pn)))

\* Swagger.create_node_type_from_schema_reference
create_node_type_from_schema_reference(doc, st, name, reference) ==
    IF ~Has(reference, "ref")
    THEN Logged(st, {<<"error", "not a schema reference", name>>})
    ELSE With(get_referenced_schema(doc, reference.ref), LAMBDA r :
         IF r.ret = "None" THEN Raised(Logged(st, r.logs), "TypeError")
         ELSE IF r.ret = "raise" THEN Raised(st, r.exc)
         ELSE IF DOMAIN r.schema = {}
         THEN Logged(st, {<<"error", "referenced schema not found", name>>})
         ELSE create_node_type_from_schema(doc, st, r.name, r.schema))

\* Swagger2.process_parameter_object
Swagger2_process_parameter_object(doc, st, name, value) ==
    IF ~Has(value, "in") THEN Raised(st, "KeyError")
    ELSE IF value["in"] # "body" THEN st
    ELSE IF ~Has(value, "schema") THEN Raised(st, "KeyError")
    ELSE create_node_type_from_schema_reference(doc, st, name, value.schema)

\* Swagger3.process_parameter_object
Swagger3_process_parameter_object(doc, st, name, value) == st

process_parameter_object(fl, doc, st, name, value) ==
    IF fl = "2" THEN Swagger2_process_parameter_object(doc, st, name, value)
    ELSE Swagger3_process_parameter_object(doc, st, name, value)

\* "for parameter in parameters: self.process_parameter_object(name, parameter)"
RECURSIVE process_parameters(_, _, _, _, _, _)
process_parameters(fl, doc, st, name, parameters, i) ==
    IF i > Len(parameters) \/ st.exc # "none" THEN st
    ELSE process_parameters(fl, doc,
             process_parameter_object(fl, doc, st, name, parameters[i]),
             name, parameters, i + 1)

\* Swagger2.process_operation_object
Swagger2_process_operation_object(doc, st, name, value) ==
    process_parameters("2", doc, st, name,
        IF Has(value, "parameters") THEN value.parameters ELSE <<>>, 1)

\* Swagger3.process_media_type_object
process_media_type_object(doc, st, name, media_type) ==
    IF ~Has(media_type, "schema") THEN Raised(st, "KeyError")
    ELSE create_node_type_from_schema_reference(doc, st, name, media_type.schema)

\* "except KeyError: logger.info("%s: no JSON content", name)"
NoJSONContent(m, name) ==
    IF m.exc = "KeyError"
    THEN Logged([m EXCEPT !.exc = "none"], {<<"info", "no JSON content", name>>})
    ELSE m

\* Swagger3.process_request_body; content is keyed by media type, and a
\* KeyError raised while the JSON content is processed is taken for "no JSON
\* content"
process_request_body(doc, st, name, body) ==
    IF ~Has(body, "content") THEN Raised(st, "KeyError")
    ELSE IF ~Has(body.content, "application/json")
    THEN Logged(st, {<<"info", "no JSON content", name>>})
    ELSE NoJSONContent(process_media_type_object(doc, st, name,
                           body.content["application/json"]), name)

\* Swagger3.process_operation_object
Swagger3_process_operation_object(doc, st, name, value) ==
    IF ~Has(value, "requestBody")
    THEN Logged(st, {<<"info", "no request body", name>>})
    ELSE process_request_body(doc, st, name, value.requestBody)

\* an operation object that is not looked at
skip_operation_object(fl, doc, st, name, value) == st

process_operation_object(fl, doc, st, name, value) ==
    IF st.exc # "none" THEN st
    ELSE IF fl = "2" THEN Swagger2_process_operation_object(doc, st, name, value)
    ELSE Swagger3_process_operation_object(doc, st, name, value)

\* Swagger.process_path_object
process_path_object(fl, doc, st, name, value) ==
    IF ~Has(value, "post") \/ DOMAIN value.post = {}
    THEN Logged(st, {<<"debug", "does not have POST", name>>})
    ELSE process_operation_object(fl, doc,
             process_parameters(fl, doc, st, name,
                 IF Has(value, "parameters") THEN value.parameters ELSE <<>>, 1),
             name, value.post)

(***************************************************************************)
(* Materialization of data types.  create_data_type_from_schema calls      *)
(* itself through create_data_types_for_properties; st.stack holds one     *)
(* frame per call in progress: the schema, the property the loop is at (i) *)
(* and the slot of that property that is tried next (s).  A frame whose i  *)
(* is past its last property is about to emit.                             *)
(***************************************************************************)
Frame(schema_name, schema) ==
    [schema_name |-> schema_name, schema |-> schema, i |-> 1, s |-> 1]

NextProp(f) == [f EXCEPT !.i = @ + 1, !.s = 1]
\* "except KeyError": the next slot, or "pass" after the last one
NextSlot(f) == IF f.s = Len(Slots) THEN NextProp(f) ELSE [f EXCEPT !.s = @ + 1]
\* "except Exception as e" of create_data_type_from_schema: the loop over
\* the properties is abandoned, the data type is still emitted
ToEmit(f) == [f EXCEPT !.i = Len(Props(f.schema)) + 1, !.s = 1]

Top(st) == st.stack[Len(st.stack)]
Popped(st) == [st EXCEPT !.stack = SubSeq(@, 1, Len(@) - 1)]
WithTop(st, f) == [st EXCEPT !.stack[Len(st.stack)] = f]

\* a call of create_data_type_from_schema ended with outcome ("normal", or
\* the name of the exception it raised): the caller goes on
dt_deliver(st, outcome) ==
    IF st.stack = <<>>
    THEN IF outcome = "normal" THEN st ELSE [st EXCEPT !.exc = outcome]
    ELSE IF outcome = "normal" THEN WithTop(st, NextProp(Top(st)))
    ELSE IF outcome = "KeyError" THEN WithTop(st, NextSlot(Top(st)))
    ELSE Logged(WithTop(st, ToEmit(Top(st))),
                {<<"error", outcome, Top(st).schema_name>>})

\* the check "schema_name in self.data_types" of create_data_type_from_schema
data_type_seen(st, schema_name) == schema_name \in st.data_types

\* create_data_type_from_schema after "self.data_types.add(schema_name)"
dt_enter(st, schema_name, schema, pn) ==
    IF Has(schema, "ref")
    THEN dt_deliver(Logged(st, {<<"error", "REFERENCES", schema_name>>}), "normal")
    ELSE IF pn[2] # Empty /\ pn[2] # V1
    THEN dt_deliver(Logged(st, {<<"info", "Ignoring version", schema_name>>}),
                    "normal")
    ELSE [st EXCEPT !.stack = Append(@, Frame(schema_name, schema))]

\* Swagger.create_data_type_from_schema, up to the loop over the properties
dt_call(doc, st, schema_name, schema) ==
    IF data_type_seen(st, schema_name)
    THEN dt_deliver(Logged(st, {<<"debug", "duplicate", schema_name>>}), "normal")
    ELSE dt_enter([st EXCEPT !.data_types = @ \cup {schema_name}],
                  schema_name, schema,
                  Swagger_parse_schema_name(schema_name, schema))

\* what the innermost call f makes of the result t of one slot
dt_slot(doc, st, f, t) ==
    IF t.out = "next" THEN WithTop(st, NextSlot(f))
    ELSE IF t.out = "raise"
    THEN Logged(WithTop(st, ToEmit(f)),
                t.logs \cup {<<"error", t.exc, f.schema_name>>})
    ELSE dt_call(doc, st, t.name, t.schema)

\* Swagger.create_data_types_for_properties(schema): one slot of one
\* property of the innermost call
dt_property(doc, st) ==
    dt_slot(doc, st, Top(st),
            TrySlot(doc, Props(Top(st).schema)[Top(st).i][2], Slots[Top(st).s]))

\* the call f returns after profile.emit_data_type gave e
dt_emitted(st, f, group, e) ==
    dt_deliver([Popped(st) EXCEPT
                   !.profiles = Put(@, group,
                       [e.profile EXCEPT !.data_records = Sourced(@, f.schema_name)]),
                   !.logs = @ \cup e.logs],
               IF e.exc = "none" THEN "normal" ELSE e.exc)

\* "profile = self.profiles[group]; profile.emit_data_type(kind, schema)"
dt_profile(st, f, pn) ==
    IF ~HasKey(st.profiles, pn[1]) THEN dt_deliver(Popped(st), "KeyError")
    ELSE dt_emitted(st, f, pn[1],
                    emit_data_type(Get(st.profiles, pn[1]), pn[3], f.schema))

\* Swagger.create_data_type_from_schema, after the loop: the record is
\* emitted into the profile of the schema's namespace and the call returns
dt_emit(doc, st) ==
    dt_profile(st, Top(st),
               Swagger_parse_schema_name(Top(st).schema_name, Top(st).schema))

\* Swagger2.get_schemas / Swagger3.get_schemas
get_schemas(fl, doc) ==
    IF fl = "2"
    THEN IF HasKey(doc, K_definitions) THEN Get(doc, K_definitions) ELSE <<>>
    ELSE IF HasKey(doc, K_components) /\ HasKey(Get(doc, K_components), K_schemas)
         THEN Get(Get(doc, K_components), K_schemas) ELSE <<>>

\* whether the loop body reaches the call ("continue" otherwise)
drain_found(fl, doc, definition) == HasKey(get_schemas(fl, doc), definition)

\* Swagger.process_deferred_schemas, the body of the loop up to the call
drain_begin(fl, doc, st, definition) ==
    IF ~drain_found(fl, doc, definition)
    THEN Logged(st, {<<"error", "Definition not found", definition>>})
    ELSE dt_call(doc, st, definition, Get(get_schemas(fl, doc), definition))

\* the body of the loop after the call has returned: the log statement names
\* the undefined variable 'key'
drain_end(st, definition) ==
    IF st.exc = "none" /\ definition \in st.node_types
    THEN [st EXCEPT !.exc = "NameError"]
    ELSE st

(***************************************************************************)
(* Documents.  A document is drawn from a pool of schema definitions and a *)
(* pool of path objects: its 'definitions' are at most MaxSchemas entries  *)
(* of the schema pool and its 'paths' at most MaxPaths entries of the path *)
(* pool, each in pool order.  A pointer to a pool entry that the document  *)
(* leaves out is a pointer to a schema that is absent.                     *)
(***************************************************************************)
MaxSchemas == 3
MaxPaths == 2

N_Foo == <<"p","k","g",".","v","1",".","F","o","o">>
N_Bar == <<"p","k","g","2",".","v","1",".","B","a","r">>
N_Baz == <<"p","k","g","2",".","v","1",".","B","a","z">>
N_Hub == <<"p","k","g",".","v","1",".","H","u","b">>
N_Wrap == <<"p","k","g",".","v","1",".","W","r","a","p">>
N_Ext == <<"p","k","g",".","v","1",".","E","x","t">>
N_Nil == <<"p","k","g",".","v","1",".","N","i","l">>
N_Top == <<"T","o","p">>
N_Old == <<"p","k","g",".","v","1","b","e","t","a","1",".","O","l","d">>
NS_pkg == <<"p","k","g">>
NS_pkg2 == <<"p","k","g","2">>
Kind_Foo == <<"F","o","o">>
Kind_Bar == <<"B","a","r">>

\* "#/definitions/<name>"
Ref(name) == DefinitionsPrefix \o name
\* a pointer into another document
ExternalRef == <<"h","t","t","p",":","/","/","x","/","y","#","/">> \o K_definitions
                   \o <<"/">> \o N_Bar

SchemaPool == <<
    <<N_Foo, [type |-> T_object,
              properties |-> <<  <<"bar", [ref |-> Ref(N_Bar)]>>  >>]>>,
    <<N_Bar, [type |-> T_object,
              properties |-> <<  <<"peer", [ref |-> Ref(N_Baz)]>>  >>]>>,
    <<N_Baz, [type |-> T_object,
              properties |-> <<  <<"back", [items |-> [ref |-> Ref(N_Bar)]]>>,
                                 <<"me", [additionalProperties |-> [ref |-> Ref(N_Baz)]]>>  >>]>>,
    <<N_Top, [type |-> T_object,
              properties |-> <<  <<"self", [ref |-> Ref(N_Top)]>>  >>]>>,
    <<N_Hub, [type |-> T_object,
              properties |-> <<  <<"t", [ref |-> Ref(N_Top)]>>,
                                 <<"w", [ref |-> Ref(N_Wrap)]>>,
                                 <<"f", [ref |-> Ref(N_Foo)]>>  >>]>>,
    <<N_Wrap, [type |-> T_object,
               properties |-> <<  <<"t", [ref |-> Ref(N_Top),
                                          items |-> [ref |-> Ref(N_Baz)]]>>  >>]>>,
    <<N_Ext, [type |-> T_object,
              properties |-> <<  <<"e", [ref |-> ExternalRef]>>  >>]>>,
    <<N_Nil, <<>> >>,
    <<N_Old, [type |-> T_object,
              properties |-> <<  <<"bar", [ref |-> Ref(N_Bar)]>>  >>]>>
  >>

BodyParameter(name) == [schema |-> [ref |-> Ref(name)]] @@ ("in" :> "body")
QueryParameter == [type |-> T_string] @@ ("in" :> "query")
Post(name) == [post |-> [parameters |-> <<BodyParameter(name)>>]]

PathPool == <<
    <<"/foos", Post(N_Foo)>>,
    <<"/foos2", [post |-> [parameters |-> <<QueryParameter, BodyParameter(N_Foo)>>],
                 parameters |-> <<QueryParameter>>]>>,
    <<"/bars", Post(N_Bar)>>,
    <<"/hubs", Post(N_Hub)>>,
    <<"/tops", Post(N_Top)>>,
    <<"/nils", Post(N_Nil)>>,
    <<"/ext", [post |-> [parameters |->
                  <<[schema |-> [ref |-> ExternalRef]] @@ ("in" :> "body")>>]]>>,
    <<"/ro", [get |-> [parameters |-> <<>>]]>>,
    <<"/shared", [post |-> [parameters |-> <<QueryParameter>>],
                  parameters |-> <<BodyParameter(N_Bar)>>]>>
  >>

\* the entries of pool whose index is in S, in pool order
RECURSIVE Select(_, _, _)
Select(pool, S, i) ==
    IF i > Len(pool) THEN <<>>
    ELSE (IF i \in S THEN <<pool[i]>> ELSE <<>>) \o Select(pool, S, i + 1)

Choices(pool, max) ==
    {Select(pool, S, 1) : S \in {T \in SUBSET (1..Len(pool)) : Cardinality(T) <= max}}

Version2 == <<"2",".","0">>
Info == <<  << <<"t","i","t","l","e">>, <<"A","P","I">> >>  >>

Document(defs, paths) ==
    <<  <<K_swagger, Version2>>, <<K_info, Info>>,
        <<K_definitions, defs>>, <<K_paths, paths>>  >>

\* Swagger 2.0 documents
Documents2 ==
    {Document(defs, paths) : defs \in Choices(SchemaPool, MaxSchemas),
                             paths \in Choices(PathPool, MaxPaths)}

\* "#/components/schemas/<name>"
Ref3(name) == <<"#", "/">> \o K_components \o <<"/">> \o K_schemas \o <<"/">> \o name

Version3 == <<"3",".","0",".","1">>
Version1 == <<"1",".","2">>

\* a request body with JSON content that points at the schema name
RequestBody(name) ==
    [content |-> ("application/json" :> [schema |-> [ref |-> Ref3(name)]])]

\* an OpenAPI 3 document: Foo with bar -> Bar, and POSTs of Foo (JSON), of
\* nothing, of XML content only, and of a media type without a schema
Document3 ==
    <<  <<K_openapi, Version3>>, <<K_info, Info>>,
        <<K_components,
          <<  <<K_schemas,
                <<  <<N_Foo, [type |-> T_object,
                              properties |-> <<  <<"bar", [ref |-> Ref3(N_Bar)]>>  >>]>>,
                    <<N_Bar, [type |-> T_object]>>  >>  >>  >>  >>,
        <<K_paths,
          <<  <<"/foos", [post |-> [requestBody |-> RequestBody(N_Foo)],
                          parameters |-> <<QueryParameter>>]>>,
              <<"/none", [post |-> [responses |-> <<>>]]>>,
              <<"/xml", [post |-> [requestBody |->
                            [content |-> ("application/xml" :> [schema |-> [ref |-> Ref3(N_Foo)]])]]]>>,
              <<"/bare", [post |-> [requestBody |->
                            [content |-> ("application/json" :> [example |-> Empty])]]]>>  >>  >>  >>

\* documents that main() turns down: no version key, an unsupported version
DocumentNoVersion == <<  <<K_info, Info>>, <<K_paths, <<>> >>  >>
Document1 == <<  <<K_swagger, Version1>>, <<K_info, Info>>  >>
\* a Swagger 2.0 document without an Info Object
DocumentNoInfo == <<  <<K_swagger, Version2>>, <<K_paths, <<>> >>  >>

Documents ==
    Documents2 \cup {Document3, DocumentNoVersion, Document1, DocumentNoInfo}

(***************************************************************************)
(* The run: main() and Swagger.convert()                                   *)
(***************************************************************************)
Session ==
    [exc |-> "none", node_types |-> node_types, data_types |-> data_types,
     deferred_schemas |-> deferred_schemas, profiles |-> profiles,
     stack |-> stack, logs |-> log]

\* the converter's state after a handler; an exception that leaves convert()
\* is caught by main(), which exits with 4
Becomes(st) ==
    /\ node_types' = st.node_types
    /\ data_types' = st.data_types
    /\ deferred_schemas' = st.deferred_schemas
    /\ profiles' = st.profiles
    /\ stack' = st.stack
    /\ log' = st.logs \cup (IF st.exc # "none"
                            THEN {<<"error", "Error converting", st.exc>>} ELSE {})
    /\ exitcode' = (IF st.exc # "none" THEN 4 ELSE exitcode)

\* a handler of convert() ended with st: convert() goes on unless an
\* exception is propagating
Ends(st) ==
    /\ Becomes(st)
    /\ pc' = (IF st.exc # "none" THEN "exit" ELSE pc)

Init ==
    /\ data \in Documents
    /\ flavor = "none"
    /\ pc = "main"
    /\ exitcode = 0
    /\ idx = 1
    /\ profiles = <<>>
    /\ node_types = {}
    /\ data_types = {}
    /\ deferred_schemas = {}
    /\ drained = {}
    /\ cur = Empty
    /\ stack = <<>>
    /\ log = {}
    /\ arg = <<>>
    /\ res = <<>>

\* a version that is taken to be 2.0 whatever the document says
version_assumed(doc) == [exc |-> "none", version |-> Version2]

\* get_version
get_version(doc) ==
    IF HasKey(doc, K_swagger) THEN [exc |-> "none", version |-> Get(doc, K_swagger)]
    ELSE IF HasKey(doc, K_openapi) THEN [exc |-> "none", version |-> Get(doc, K_openapi)]
    ELSE [exc |-> "KeyError"]

\* main(): the converter is chosen by the first character of the version
Main ==
    /\ pc = "main"
    /\ LET v == get_version(data) IN
       IF v.exc # "none"
       THEN /\ pc' = "exit" /\ exitcode' = 3 /\ flavor' = flavor
            /\ log' = log \cup {<<"error", "Swagger version not specified", Empty>>}
       ELSE IF v.version[1] \in {"2", "3"}
       THEN /\ pc' = "collect" /\ exitcode' = exitcode /\ flavor' = v.version[1]
            /\ log' = log
       ELSE /\ pc' = "exit" /\ exitcode' = 2 /\ flavor' = flavor
            /\ log' = log \cup {<<"error", "Unsupported Swagger version", v.version>>}
    /\ UNCHANGED <<data, idx, profiles, node_types, data_types, deferred_schemas,
                   drained, cur, stack, arg, res>>

\* Swagger.collect_profile_info: one schema of the loop
CollectProfileInfo ==
    /\ pc = "collect"
    /\ idx <= Len(get_schemas(flavor, data))
    /\ Ends(collect_profile_info_from_schema(data, Session,
                get_schemas(flavor, data)[idx][1], get_schemas(flavor, data)[idx][2]))
    /\ idx' = idx + 1
    /\ UNCHANGED <<data, flavor, drained, cur, arg, res>>

\* Profile.initialize: the header of profile.yaml is written, with the
\* imports the profile has at that time
initialize(profile) == [profile EXCEPT !.out = "open"]

\* Swagger.get_info and Swagger.initialize_profiles
InitializeProfiles ==
    /\ pc = "collect"
    /\ idx > Len(get_schemas(flavor, data))
    /\ IF ~HasKey(data, K_info)
       THEN /\ Becomes([Session EXCEPT !.exc = "KeyError"])
            /\ pc' = "exit"
       ELSE /\ Becomes([Session EXCEPT !.profiles =
                  [i \in 1..Len(profiles) |->
                      <<profiles[i][1], initialize(profiles[i][2])>>]])
            /\ pc' = "paths"
    /\ idx' = 1
    /\ UNCHANGED <<data, flavor, drained, cur, arg, res>>

\* the Paths Object process_paths iterates: none when absent or empty
Paths == IF HasKey(data, K_paths) THEN Get(data, K_paths) ELSE <<>>

\* Swagger.process_paths: one path object of the loop
ProcessPath ==
    /\ pc = "paths"
    /\ idx <= Len(Paths)
    /\ Ends(process_path_object(flavor, data, Session, Paths[idx][1], Paths[idx][2]))
    /\ idx' = idx + 1
    /\ UNCHANGED <<data, flavor, drained, cur, arg, res>>

\* Swagger.process_paths returns; process_deferred_schemas begins
ProcessPathsEnd ==
    /\ pc = "paths"
    /\ idx > Len(Paths)
    /\ pc' = "deferred"
    /\ log' = log \cup (IF Paths = <<>> THEN {<<"error", "No Paths Object", Empty>>}
                        ELSE {})
    /\ UNCHANGED <<data, flavor, exitcode, idx, profiles, node_types, data_types,
                   deferred_schemas, drained, cur, stack, arg, res>>

\* the loop body of process_deferred_schemas is at st, inside the call for
\* definition or back from it
AfterCall(st, definition) ==
    IF st.stack = <<>>
    THEN /\ Ends(drain_end(st, definition))
         /\ cur' = Empty
    ELSE /\ Becomes(st)
         /\ pc' = pc
         /\ cur' = definition

\* Swagger.process_deferred_schemas: the loop takes the next entry of the
\* set, in whatever order the set yields them
ProcessDeferred ==
    /\ pc = "deferred"
    /\ stack = <<>>
    /\ \E definition \in deferred_schemas \ drained :
        /\ drained' = drained \cup {definition}
        /\ IF drain_found(flavor, data, definition)
           THEN AfterCall(drain_begin(flavor, data, Session, definition), definition)
           ELSE /\ Becomes(drain_begin(flavor, data, Session, definition))
                /\ pc' = pc
                /\ cur' = Empty
    /\ UNCHANGED <<data, flavor, idx, arg, res>>

\* create_data_types_for_properties of the innermost call: one slot
DataTypeProperty ==
    /\ pc = "deferred"
    /\ stack # <<>>
    /\ Top(Session).i <= Len(Props(Top(Session).schema))
    /\ AfterCall(dt_property(data, Session), cur)
    /\ UNCHANGED <<data, flavor, idx, drained, arg, res>>

\* the innermost call emits its data type and returns
DataTypeEmit ==
    /\ pc = "deferred"
    /\ stack # <<>>
    /\ Top(Session).i > Len(Props(Top(Session).schema))
    /\ AfterCall(dt_emit(data, Session), cur)
    /\ UNCHANGED <<data, flavor, idx, drained, arg, res>>

\* Profile.finalize
finalize(profile) == [profile EXCEPT !.out = "closed", !.closes = @ + 1]

\* Swagger.finalize_profiles, and convert() returns
FinalizeProfiles ==
    /\ pc = "deferred"
    /\ stack = <<>>
    /\ drained = deferred_schemas
    /\ pc' = "done"
    /\ profiles' = [i \in 1..Len(profiles) |->
                       <<profiles[i][1], finalize(profiles[i][2])>>]
    /\ UNCHANGED <<data, flavor, exitcode, idx, node_types, data_types,
                   deferred_schemas, drained, cur, stack, log, arg, res>>

Next ==
    \/ Main
    \/ CollectProfileInfo
    \/ InitializeProfiles
    \/ ProcessPath
    \/ ProcessPathsEnd
    \/ ProcessDeferred
    \/ DataTypeProperty
    \/ DataTypeEmit
    \/ FinalizeProfiles

Spec == Init /\ [][Next]_vars

(***************************************************************************)
(* Pure functions under test: the input is drawn in the initial state and  *)
(* one action applies the function.  res is <<>> before the call and       *)
(* <<result>> after it.  The variables of the run keep their initial       *)
(* values.                                                                 *)
(***************************************************************************)
Idle ==
    /\ data = <<>>
    /\ flavor = "none"
    /\ exitcode = 0
    /\ idx = 1
    /\ profiles = <<>>
    /\ node_types = {}
    /\ data_types = {}
    /\ deferred_schemas = {}
    /\ drained = {}
    /\ cur = Empty
    /\ stack = <<>>
    /\ log = {}

\* the longest schema name the parsers are given, in segments
MaxSegments == 3

Segments == { <<"a">>, <<"b">>, <<"v","1">>, <<"v","2","x">>, <<"V","3">>,
              <<"F","o","o">> }

\* the names of n segments
RECURSIVE NamesOf(_)
NamesOf(n) ==
    IF n = 1 THEN Segments
    ELSE {head \o <<".">> \o seg : head \in NamesOf(n - 1), seg \in Segments}

ParseNames == UNION {NamesOf(n) : n \in 1..MaxSegments}

InitParse ==
    /\ Idle
    /\ pc = "parse"
    /\ arg \in ParseNames
    /\ res = <<>>

\* namespace, version and kind of a parsed name, joined with '.'
Rejoined(pn) == join(<<pn[1], pn[2], pn[3]>>, ".")

\* both parsers are given the name arg, of a schema without
\* x-swagger-router-model; Swagger.parse_schema_name is also given the name
\* pkg.v1.Foo of a schema whose x-swagger-router-model is arg, and the name
\* that its own result for arg is joined to
Parse ==
    /\ pc = "parse"
    /\ res = <<>>
    /\ res' = <<Swagger_parse_schema_name(arg, [type |-> T_object]),
                profile_parse_schema_name(arg),
                Swagger_parse_schema_name(N_Foo, [type |-> T_object,
                                                  router_model |-> arg]),
                Swagger_parse_schema_name(
                    Rejoined(Swagger_parse_schema_name(arg, [type |-> T_object])),
                    [type |-> T_object])>>
    /\ UNCHANGED <<runVars, arg>>

NextParse == Parse

SpecParse == InitParse /\ [][NextParse]_vars

\* schema names whose profiles are written, and which properties point at
N_XA == <<"x",".","c","o","r","e",".","v","1",".","A">>
N_YB == <<"y",".","c","o","r","e",".","v","1",".","B">>
N_aFoo == <<"a",".","F","o","o">>

Owners == {N_Foo, N_Bar, N_XA, N_YB, N_aFoo}
Targets == {N_Foo, N_Bar, N_XA, N_YB, N_aFoo, N_Top}

\* the Profile that collect_profile_info_from_schema creates for the
\* namespace of schema_name
ProfileFor(schema_name) ==
    With(Swagger_parse_schema_name(schema_name, [type |-> T_object]), LAMBDA pn :
         Profile(pn[1], pn[2], pn[4]))

\* property schemas: the three ways of pointing at a schema, and properties
\* that point at none
PropertySchemas ==
    UNION {{ [ref |-> Ref(t)],
             [items |-> [ref |-> Ref(t)]],
             [type |-> T_array, items |-> [ref |-> Ref(t)]] } : t \in Targets}
    \cup { [type |-> T_string], [type |-> T_integer],
           [type |-> T_array, items |-> [type |-> T_string]],
           [description |-> Empty], [type |-> <<"d","a","t","e">>],
           [ref |-> ExternalRef] }

InitRender ==
    /\ Idle
    /\ pc = "render"
    /\ arg \in {[owner |-> o, schema |-> ps] : o \in Owners, ps \in PropertySchemas}
    /\ res = <<>>

\* Profile.add_property writes the property "p" with schema arg.schema into
\* the profile of arg.owner
Render ==
    /\ pc = "render"
    /\ res = <<>>
    /\ res' = <<add_property(ProfileFor(arg.owner), "p", arg.schema, {})>>
    /\ UNCHANGED <<runVars, arg>>

NextRender == Render

SpecRender == InitRender /\ [][NextRender]_vars

(***************************************************************************)
(* Properties                                                              *)
(***************************************************************************)
\* the schema container of the document being converted
Schemas == get_schemas(flavor, data)

\* the positions <<p, i>> of the node-type (data-type) records made for the
\* schema name n, over all profiles
NodeRecordsOf(n) ==
    {pi \in UNION {{<<p, i>> : i \in 1..Len(profiles[p][2].node_records)} :
                   p \in 1..Len(profiles)} :
        profiles[pi[1]][2].node_records[pi[2]].source = n}
DataRecordsOf(n) ==
    {pi \in UNION {{<<p, i>> : i \in 1..Len(profiles[p][2].data_records)} :
                   p \in 1..Len(profiles)} :
        profiles[pi[1]][2].data_records[pi[2]].source = n}

\* the version filter lets the name through
VersionAccepted(n) ==
    With(Swagger_parse_schema_name(n, Get(Schemas, n)), LAMBDA pn :
         pn[2] = Empty \/ pn[2] = V1)

\* a schema that create_node_type_from_schema does not turn down
ValidNodeType(n) ==
    /\ HasKey(Schemas, n)
    /\ Has(Get(Schemas, n), "type")
    /\ Get(Schemas, n).type = T_object
    /\ VersionAccepted(n)

\* a schema that create_data_type_from_schema does not turn down
ValidDataType(n) ==
    /\ HasKey(Schemas, n)
    /\ ~Has(Get(Schemas, n), "ref")
    /\ VersionAccepted(n)

\* what a further call leaves alone: the visited sets and every record
SameOutput(st) ==
    /\ st.node_types = node_types
    /\ st.data_types = data_types
    /\ st.profiles = profiles

\* C1: a second call of create_node_type_from_schema or of
\* create_data_type_from_schema with a name already requested emits no record
\* and changes neither visited set, and once the conversion has completed
\* every valid schema that was requested has exactly one record in its bucket
C1_Idempotent ==
    /\ \A n \in node_types : HasKey(Schemas, n) =>
          SameOutput(create_node_type_from_schema(data, Session, n, Get(Schemas, n)))
    /\ \A n \in data_types : HasKey(Schemas, n) =>
          SameOutput(dt_call(data, Session, n, Get(Schemas, n)))
    /\ pc = "done" =>
          /\ \A n \in node_types : ValidNodeType(n) => Cardinality(NodeRecordsOf(n)) = 1
          /\ \A n \in data_types : ValidDataType(n) => Cardinality(DataRecordsOf(n)) = 1

\* the schema names that the properties of the schema n point at, through any
\* of the three slots
Pointees(n) ==
    {get_referenced_schema(data, SlotRef(Get(Schemas, n).properties[i][2], slot).ref).name :
        <<i, slot>> \in
            {is \in (1..Len(Props(Get(Schemas, n)))) \X {"ref", "items", "additionalProperties"} :
                /\ SlotRef(Get(Schemas, n).properties[is[1]][2], is[2]).has
                /\ get_referenced_schema(data,
                       SlotRef(Get(Schemas, n).properties[is[1]][2], is[2]).ref).ret = "tuple"}}

RECURSIVE ReachableFrom(_, _)
ReachableFrom(S, k) ==
    IF k = 0 THEN S
    ELSE ReachableFrom(S \cup UNION {Pointees(m) : m \in {x \in S : HasKey(Schemas, x)}},
                       k - 1)

\* n is on a cycle of property references
OnCycle(n) ==
    HasKey(Schemas, n) /\ n \in ReachableFrom(Pointees(n), Len(Schemas))

\* C2: create_data_type_from_schema never enters a schema it is already in
\* (so the recursion through a cycle of property references ends), and once
\* the conversion has completed every schema on a cycle that was requested as
\* a data type has exactly one data-type record
C2_CycleSafe ==
    /\ \A i, j \in 1..Len(stack) :
          stack[i].schema_name = stack[j].schema_name => i = j
    /\ pc = "done" =>
          \A n \in data_types : OnCycle(n) => Cardinality(DataRecordsOf(n)) = 1

\* C3: no schema name is in both visited sets, and none has both a node-type
\* record and a data-type record
C3_Disjoint ==
    /\ node_types \cap data_types = {}
    /\ \A n \in node_types \cup data_types :
          NodeRecordsOf(n) = {} \/ DataRecordsOf(n) = {}

\* the schema names the records of a bucket were made for
Sources(records) == {records[i].source : i \in 1..Len(records)}

\* C3 as amended: a name is in node_types only if a POST body named it and in
\* data_types only once the drain reached it; each visited set admits a name
\* once, so no name has two records in the same bucket, and every record's
\* name is in the set of its bucket
C3_OncePerBucket ==
    /\ pc \in {"main", "collect", "paths"} => data_types = {}
    /\ \A n \in node_types \cup data_types :
          /\ Cardinality(NodeRecordsOf(n)) <= 1
          /\ Cardinality(DataRecordsOf(n)) <= 1
    /\ \A p \in 1..Len(profiles) :
          /\ Sources(profiles[p][2].node_records) \subseteq node_types
          /\ Sources(profiles[p][2].data_records) \subseteq data_types

\* a completed conversion in which a schema has a record in both buckets
C3_InBoth ==
    /\ pc = "done"
    /\ \E n \in node_types \cap data_types :
          Cardinality(NodeRecordsOf(n)) = 1 /\ Cardinality(DataRecordsOf(n)) = 1

\* the positions of the records of a bucket that are named kind
RecordsOfKind(records, kind) == {i \in 1..Len(records) : records[i].kind = kind}

\* the record has a property called name whose type line reads t
HasPropertyOfType(record, name, t) ==
    \E k \in 1..Len(record.entries) :
        /\ record.entries[k][1] = "properties"
        /\ \E q \in 1..Len(record.entries[k][2]) :
              /\ record.entries[k][2][q].name = name
              /\ \E l \in 1..Len(record.entries[k][2][q].entries) :
                    /\ record.entries[k][2][q].entries[l][1] = "type"
                    /\ record.entries[k][2][q].entries[l][2] = t

\* the value of a path has a POST operation with a body parameter that
\* points at ref
PostsBody(value, ref) ==
    /\ Has(value, "post")
    /\ Has(value.post, "parameters")
    /\ \E j \in 1..Len(value.post.parameters) :
          /\ value.post.parameters[j]["in"] = "body"
          /\ value.post.parameters[j].schema.ref = ref

\* the document is a Swagger 2.0 document that defines the object schema
\* pkg.v1.Foo with the property bar pointing at pkg2.v1.Bar, the schema
\* pkg2.v1.Bar, and a POST path whose body is pkg.v1.Foo
FooBarScenario ==
    /\ flavor = "2"
    /\ HasKey(Schemas, N_Foo)
    /\ Get(Schemas, N_Foo) =
          [type |-> T_object, properties |-> <<  <<"bar", [ref |-> Ref(N_Bar)]>>  >>]
    /\ HasKey(Schemas, N_Bar)
    /\ ~Has(Get(Schemas, N_Bar), "ref")
    /\ \E i \in 1..Len(Paths) : PostsBody(Paths[i][2], Ref(N_Foo))

\* what the scenario expects of the profiles pkg and pkg2
FooBarExpected(pkg, pkg2) ==
    /\ Cardinality(RecordsOfKind(pkg.node_records, Kind_Foo)) = 1
    /\ \A i \in RecordsOfKind(pkg.node_records, Kind_Foo) :
          /\ pkg.node_records[i].entries[1] = <<"derived_from", T_NodesRoot>>
          /\ HasPropertyOfType(pkg.node_records[i], "bar",
                               NS_pkg2 \o <<":">> \o Kind_Bar)
    /\ Cardinality(RecordsOfKind(pkg2.data_records, Kind_Bar)) = 1
    /\ HasKey(pkg.dependencies, NS_pkg2)
    /\ Get(pkg.dependencies, NS_pkg2) = NS_pkg2

\* C4: a completed conversion of a document of the Foo/Bar scenario leaves
\* profile pkg with exactly one node type Foo, derived from tosca.nodes.Root,
\* whose property bar has type pkg2:Bar; profile pkg2 with exactly one data
\* type Bar; and profile pkg with the dependency pkg2 under prefix pkg2
C4_Scenario ==
    (pc = "done" /\ FooBarScenario) =>
        /\ HasKey(profiles, NS_pkg)
        /\ HasKey(profiles, NS_pkg2)
        /\ FooBarExpected(Get(profiles, NS_pkg), Get(profiles, NS_pkg2))

\* a completed conversion of a document of the scenario
C4_Completed == pc = "done" /\ FooBarScenario

\* the log holds the complaint of get_referenced_schema about a pointer that
\* is not local
NonLocalLogged(entries) ==
    \E e \in entries : e[1] = "error" /\ e[2] = "not a local reference"

\* C5: the step in which get_referenced_schema meets a pointer that is not
\* local does not end the conversion
C5_NonLocalNotFatal ==
    [][(NonLocalLogged(log') /\ ~NonLocalLogged(log)) => pc' # "exit"]_vars

\* the pointers of the POST request bodies of the value of a path
BodyRefs(value) ==
    IF ~Has(value, "post") THEN {}
    ELSE IF flavor = "2"
    THEN IF ~Has(value.post, "parameters") THEN {}
         ELSE {value.post.parameters[j].schema.ref :
                  j \in {k \in 1..Len(value.post.parameters) :
                            /\ value.post.parameters[k]["in"] = "body"
                            /\ Has(value.post.parameters[k], "schema")
                            /\ Has(value.post.parameters[k].schema, "ref")}}
    ELSE IF /\ Has(value.post, "requestBody")
            /\ Has(value.post.requestBody, "content")
            /\ "application/json" \in DOMAIN value.post.requestBody.content
            /\ Has(value.post.requestBody.content["application/json"], "schema")
            /\ Has(value.post.requestBody.content["application/json"].schema, "ref")
         THEN {value.post.requestBody.content["application/json"].schema.ref}
         ELSE {}

\* the body of the POST of the path points into this document at a schema
\* that the document does not hold
MissingBody(value) ==
    \E ref \in BodyRefs(value) :
        /\ get_referenced_schema(data, ref).ret = "raise"
        /\ get_referenced_schema(data, ref).exc = "KeyError"

\* C6: a path whose POST body points at a schema that is absent is skipped
\* with the log 'referenced schema not found', and process_paths goes on
C6_MissingBodySkipped ==
    [][(pc = "paths" /\ idx <= Len(Paths) /\ MissingBody(Paths[idx][2])) =>
          /\ pc' = "paths"
          /\ \E e \in log' : /\ e[1] = "error"
                             /\ e[2] = "referenced schema not found"
                             /\ e[3] = Paths[idx][1]]_vars

\* create_data_type_from_schema, from the state st of the innermost call
\* until the outermost call has returned
RECURSIVE dt_run(_, _)
dt_run(doc, st) ==
    IF st.stack = <<>> THEN st
    ELSE IF Top(st).i <= Len(Props(Top(st).schema))
    THEN dt_run(doc, dt_property(doc, st))
    ELSE dt_run(doc, dt_emit(doc, st))

\* one pass of the loop of process_deferred_schemas
drain_one(fl, doc, st, definition) ==
    IF ~drain_found(fl, doc, definition) THEN drain_begin(fl, doc, st, definition)
    ELSE drain_end(dt_run(doc, drain_begin(fl, doc, st, definition)), definition)

\* process_deferred_schemas when the set yields its entries in the given
\* order, from position i
RECURSIVE drain_in_order(_, _, _, _, _)
drain_in_order(fl, doc, st, order, i) ==
    IF i > Len(order) \/ st.exc # "none" THEN st
    ELSE drain_in_order(fl, doc, drain_one(fl, doc, st, order[i]), order, i + 1)

\* the orders in which a set can yield its entries
Orders(S) ==
    {o \in [1..Cardinality(S) -> S] :
        \A i, j \in 1..Cardinality(S) : o[i] = o[j] => i = j}

\* what is observed of a drain: whether the run completes, and the names of
\* the schemas that have a data-type record in each profile
Outcome(st) ==
    [completes |-> st.exc = "none",
     records |-> [p \in 1..Len(st.profiles) |-> Sources(st.profiles[p][2].data_records)]]

\* C7: when process_deferred_schemas begins, every order of the Deferred set
\* leads to the same outcome
C7_OrderUnobservable ==
    (pc = "deferred" /\ drained = {} /\ stack = <<>>) =>
        \A o1, o2 \in Orders(deferred_schemas) :
            Outcome(drain_in_order(flavor, data, Session, o1, 1))
                = Outcome(drain_in_order(flavor, data, Session, o2, 1))

\* the type name the referenced schema name target is expected to get in
\* the profile of the schema name owner: importPrefix:Kind when the
\* namespaces differ, Kind otherwise
ExpectedTypeName(owner, target) ==
    With(Swagger_parse_schema_name(target, [type |-> T_object]), LAMBDA pn :
         IF pn[1] # ProfileFor(owner).name THEN pn[4] \o <<":">> \o pn[3] ELSE pn[3])

\* the entries written under a property that are keyed by key
EntriesOf(rec, key) ==
    {rec.entries[k][2] : k \in {l \in 1..Len(rec.entries) : rec.entries[l][1] = key}}

\* a property schema with items.$ref and neither type nor $ref of its own
ItemsOnly(schema) ==
    /\ ~Has(schema, "type")
    /\ ~Has(schema, "ref")
    /\ Has(schema, "items")
    /\ Has(schema.items, "ref")

\* the schema name a document-local pointer names
Pointed(ref) == SubSeq(ref, Len(DefinitionsPrefix) + 1, Len(ref))

\* C8: a property with items.$ref and no type or $ref of its own is written
\* with type list and with the referenced type's name as entry_schema
C8_ArrayByItems ==
    (res # <<>> /\ ItemsOnly(arg.schema)) =>
        /\ EntriesOf(res[1].rec, "type") = {T_list}
        /\ EntriesOf(res[1].rec, "entry_schema")
              = {ExpectedTypeName(arg.owner, Pointed(arg.schema.items.ref))}

\* the referenced schema name has a namespace
Namespaced(target) ==
    Swagger_parse_schema_name(target, [type |-> T_object])[1] # Empty

\* C9: the type name written for a property's $ref, and the entry_schema
\* written for the items.$ref of an array, is importPrefix:Kind exactly when
\* the namespace of the referenced schema differs from the namespace of the
\* profile being written, and Kind otherwise
C9_Qualification ==
    /\ (res # <<>> /\ ~Has(arg.schema, "type") /\ Has(arg.schema, "ref")
            /\ StartsWith(arg.schema.ref, DefinitionsPrefix)
            /\ Namespaced(Pointed(arg.schema.ref))) =>
          EntriesOf(res[1].rec, "type")
              = {ExpectedTypeName(arg.owner, Pointed(arg.schema.ref))}
    /\ (res # <<>> /\ Has(arg.schema, "type") /\ Has(arg.schema, "items")
            /\ Has(arg.schema.items, "ref")
            /\ Namespaced(Pointed(arg.schema.items.ref))) =>
          EntriesOf(res[1].rec, "entry_schema")
              = {ExpectedTypeName(arg.owner, Pointed(arg.schema.items.ref))}

\* C10: profile.parse_schema_name and Swagger.parse_schema_name return the
\* same (namespace, version, kind, importPrefix) for the same schema name
C10_SameDecomposition == res # <<>> => res[1] = res[2]

\* the positions of the type lines written under a property
TypeLines(rec) == {l \in 1..Len(rec.entries) : rec.entries[l][1] = "type"}

\* the type names a pointer can be written as: the kind of the schema it
\* names, bare or behind its import prefix
RefTypeNames(ref) ==
    With(Swagger_parse_schema_name(Pointed(ref), [type |-> T_object]), LAMBDA pn :
         {pn[3], pn[4] \o <<":">> \o pn[3], Pointed(ref)})

\* C11: add_property writes exactly one type line: the declared type when
\* the schema has a 'type', otherwise the type its '$ref' names, otherwise
\* string
C11_OneType ==
    res # <<>> =>
        /\ Cardinality(TypeLines(res[1].rec)) = 1
        /\ Has(arg.schema, "type") =>
              EntriesOf(res[1].rec, "type") = {get_type(arg.schema.type)}
        /\ (~Has(arg.schema, "type") /\ Has(arg.schema, "ref")) =>
              EntriesOf(res[1].rec, "type") \subseteq RefTypeNames(arg.schema.ref)
        /\ (~Has(arg.schema, "type") /\ ~Has(arg.schema, "ref")) =>
              EntriesOf(res[1].rec, "type") = {T_string}

(***************************************************************************)
(* Strings: a string schema is rendered as a property (add_property) and   *)
(* as a data type (emit_data_type)                                         *)
(***************************************************************************)
\* the keyword k with value v, or nothing when the keyword is left out
Keyword(k, v, present) == IF present THEN k :> v ELSE [x \in {} |-> x]

Pattern_x == <<"x">>
Enum_a == <<  <<"a">>  >>
Enum_ab == <<  <<"a">>, <<"b">>  >>

\* string schemas with every combination of the four keywords, given and
\* left out, with values that are falsy in Python (0, '') among them
StringSchemas ==
    {[type |-> T_string]
        @@ Keyword("enum", e, e # <<"absent">>)
        @@ Keyword("maxLength", mx, mx >= 0)
        @@ Keyword("minLength", mn, mn >= 0)
        @@ Keyword("pattern", pt, pt # <<"absent">>) :
        e \in {<<"absent">>, Enum_a, Enum_ab},
        mx \in {-1, 0, 5},
        mn \in {-1, 0, 1},
        pt \in {<<"absent">>, Empty, Pattern_x}}

InitString ==
    /\ Idle
    /\ pc = "string"
    /\ arg \in StringSchemas
    /\ res = <<>>

\* the string schema arg is written as the property "p" of profile pkg and
\* as the data type Foo of profile pkg
RenderString ==
    /\ pc = "string"
    /\ res = <<>>
    /\ res' = <<add_property(ProfileFor(N_Foo), "p", arg, {}),
                emit_data_type(ProfileFor(N_Foo), Kind_Foo, arg)>>
    /\ UNCHANGED <<runVars, arg>>

NextString == RenderString

SpecString == InitString /\ [][NextString]_vars

\* the constraints written among entries: the <<key, value>> pairs of every
\* constraints block
Constraints(entries) ==
    UNION {{entries[k][2][c] : c \in 1..Len(entries[k][2])} :
              k \in {l \in 1..Len(entries) : entries[l][1] = "constraints"}}

\* the constraints are those of the schema: one per declared keyword, the
\* pattern with its declared value
StringConstraints(entries, schema) ==
    /\ (\E c \in Constraints(entries) : c[1] = "valid_values") <=> Has(schema, "enum")
    /\ (\E c \in Constraints(entries) : c[1] = "max_length") <=> Has(schema, "maxLength")
    /\ (\E c \in Constraints(entries) : c[1] = "min_length") <=> Has(schema, "minLength")
    /\ (\E c \in Constraints(entries) : c[1] = "pattern") <=> Has(schema, "pattern")
    /\ \A c \in Constraints(entries) : c[1] = "pattern" => c[2] = schema.pattern

\* C12: a string-typed property and a string-typed data type are rendered
\* without an exception, with a valid_values, max_length, min_length and
\* pattern constraint exactly for the keywords the schema declares
C12_StringConstraints ==
    res # <<>> =>
        /\ res[1].exc = "none"
        /\ StringConstraints(res[1].rec.entries, arg)
        /\ res[2].exc = "none"
        /\ StringConstraints(res[2].profile.data_records[1].entries, arg)

(***************************************************************************)
(* Discovery of creatable resources                                        *)
(***************************************************************************)
\* the pointers of the 'in: body' parameters among parameters
BodyParameterRefs(parameters) ==
    {parameters[j].schema.ref :
        j \in {k \in 1..Len(parameters) : /\ parameters[k]["in"] = "body"
                                          /\ Has(parameters[k], "schema")
                                          /\ Has(parameters[k].schema, "ref")}}

\* the pointers of the path-level 'in: body' parameters of a path that has
\* a POST operation, in a Swagger 2.0 document
PathLevelRefs(value) ==
    IF flavor = "2" /\ Has(value, "post") /\ Has(value, "parameters")
    THEN BodyParameterRefs(value.parameters) ELSE {}

\* the schema names the pointers name, for those that lead to a schema of
\* the document that is not empty
Named(refs) ==
    {get_referenced_schema(data, r).name :
        r \in {q \in refs : /\ get_referenced_schema(data, q).ret = "tuple"
                            /\ DOMAIN get_referenced_schema(data, q).schema # {}}}

\* process_paths has gone through every path and convert() goes on
PathsProcessed == pc \in {"deferred", "done"}

NamespaceOf(n) == Swagger_parse_schema_name(n, Get(Schemas, n))[1]

\* dependency collection does not skip the schema named n
Collected(n) == HasKey(Schemas, n) /\ NamespaceOf(n) # Empty /\ VersionAccepted(n)

\* the namespaces of the schemas that the properties of the schema n
\* reference: for each property, the schema found by the first of '$ref',
\* items.'$ref' and additionalProperties.'$ref' that leads to one
ReferencedNamespaces(n) ==
    {Swagger_parse_schema_name(three_slot(data, Props(Get(Schemas, n))[i][2], 1).name,
                               three_slot(data, Props(Get(Schemas, n))[i][2], 1).schema)[1] :
        i \in {k \in 1..Len(Props(Get(Schemas, n))) :
                  three_slot(data, Props(Get(Schemas, n))[k][2], 1).out = "found"}}

\* collect_profile_info has gone through every schema
CollectionDone == pc \in {"paths", "deferred", "done"}

\* C14: once dependency collection is done, the Profile of a collected
\* schema's namespace A holds every other namespace B that a property of the
\* schema references; every dependency B held by a Profile A comes from a
\* reference of a schema of A to a schema of B; and no Profile holds its own
\* namespace
C14_Direction ==
    CollectionDone =>
        /\ \A n \in Keys(Schemas) : Collected(n) =>
              \A b \in ReferencedNamespaces(n) \ {Empty, NamespaceOf(n)} :
                  HasKey(Get(profiles, NamespaceOf(n)).dependencies, b)
        /\ \A p \in 1..Len(profiles) :
              \A b \in Keys(profiles[p][2].dependencies) :
                  /\ b # profiles[p][1]
                  /\ \E n \in Keys(Schemas) :
                        /\ Collected(n)
                        /\ NamespaceOf(n) = profiles[p][1]
                        /\ b \in ReferencedNamespaces(n)

\* collection is done; a Profile depends on a namespace whose own Profile
\* does not depend on it, and a schema references one of its own namespace
C14_OneWay ==
    /\ CollectionDone
    /\ \E p, q \in 1..Len(profiles) :
          /\ HasKey(profiles[p][2].dependencies, profiles[q][1])
          /\ ~HasKey(profiles[q][2].dependencies, profiles[p][1])
    /\ \E n \in Keys(Schemas) : Collected(n) /\ NamespaceOf(n) \in ReferencedNamespaces(n)

(***************************************************************************)
(* add_dependency called on one Profile, any number of times up to         *)
(* MaxCalls: arg is the sequence of the calls made, <<namespace, prefix>>  *)
(* each, res holds the Profile and log what the calls logged               *)
(***************************************************************************)
MaxCalls == 3

DependencyNamespaces == {NS_pkg2, <<"c">>}
DependencyPrefixes == {NS_pkg2, <<"c">>, <<"d">>}

InitDeps ==
    /\ Idle
    /\ pc = "deps"
    /\ arg = <<>>
    /\ res = <<Profile(NS_pkg, V1, NS_pkg)>>

AddDependency ==
    /\ pc = "deps"
    /\ Len(arg) < MaxCalls
    /\ \E ns \in DependencyNamespaces, prefix \in DependencyPrefixes :
          /\ arg' = Append(arg, <<ns, prefix>>)
          /\ res' = <<add_dependency(res[1], ns, prefix).profile>>
          /\ log' = log \cup add_dependency(res[1], ns, prefix).logs
    /\ UNCHANGED <<data, flavor, pc, exitcode, idx, profiles, node_types, data_types,
                   deferred_schemas, drained, cur, stack>>

NextDeps == AddDependency

SpecDeps == InitDeps /\ [][NextDeps]_vars

\* the position of the first call for the namespace ns
FirstCall(ns) == CHOOSE i \in 1..Len(arg) :
                    arg[i][1] = ns /\ \A j \in 1..(i - 1) : arg[j][1] # ns

\* C15: after any sequence of add_dependency calls the Profile holds, for
\* each namespace, the prefix of the first call for it; a conflict is logged
\* for a namespace exactly when a later call gave a different prefix
C15_FirstSeenWins ==
    pc = "deps" =>
        /\ Keys(res[1].dependencies) = {arg[i][1] : i \in 1..Len(arg)}
        /\ \A i \in 1..Len(arg) :
              /\ Get(res[1].dependencies, arg[i][1]) = arg[FirstCall(arg[i][1])][2]
              /\ (arg[i][2] # arg[FirstCall(arg[i][1])][2]) =>
                    <<"error", "prefix conflicts", arg[i][1]>> \in log
        /\ \A e \in log : \E i \in 1..Len(arg) :
              /\ e[3] = arg[i][1]
              /\ arg[i][2] # arg[FirstCall(arg[i][1])][2]

\* a call has given a namespace a prefix other than its first one
C15_Conflict ==
    /\ pc = "deps"
    /\ \E i, j \in 1..Len(arg) : i < j /\ arg[i][1] = arg[j][1] /\ arg[i][2] # arg[j][2]

OwnedReferences(ns) ==
    UNION {ReferencedNamespaces(n) :
              n \in {m \in Keys(Schemas) : Collected(m) /\ NamespaceOf(m) = ns}}

\* C17: once collect_profile_info is done the profile map has a Profile for
\* exactly the namespaces of the schemas whose namespace is not empty and
\* whose version is empty or 'v1'; a skipped schema adds no Profile, and no
\* dependency to the Profile of its namespace
C17_SkipRules ==
    CollectionDone =>
        /\ Keys(profiles) = {NamespaceOf(n) : n \in {m \in Keys(Schemas) : Collected(m)}}
        /\ \A p \in 1..Len(profiles) :
              Keys(profiles[p][2].dependencies) \subseteq OwnedReferences(profiles[p][1])

\* collection is done for a document that has a schema without a namespace
\* and one of another version that references a schema of another namespace
C17_Skipped ==
    /\ CollectionDone
    /\ \E n \in Keys(Schemas) : NamespaceOf(n) = Empty
    /\ \E n \in Keys(Schemas) :
          /\ NamespaceOf(n) # Empty
          /\ ~VersionAccepted(n)
          /\ ReferencedNamespaces(n) \ {Empty, NamespaceOf(n)} # {}
    /\ profiles # <<>>

(***************************************************************************)
(* Schema names                                                            *)
(***************************************************************************)
\* the segments of a name, and the segment at distance d from the last one
SegmentsOf(name) == split(name, ".")
FromLast(name, d) == SegmentsOf(name)[Len(SegmentsOf(name)) - d]

\* the segment before the last one starts with 'v1' or 'v2'
Versioned(name) ==
    /\ Len(SegmentsOf(name)) >= 3
    /\ StartsWith(FromLast(name, 1), V1) \/ StartsWith(FromLast(name, 1), V2)

\* the decomposition of a name as it is specified
Decomposition(name) ==
    IF Len(SegmentsOf(name)) = 1 THEN <<Empty, Empty, name, Empty>>
    ELSE IF Len(SegmentsOf(name)) = 2
    THEN <<FromLast(name, 1), Empty, FromLast(name, 0), FromLast(name, 1)>>
    ELSE IF Versioned(name)
    THEN <<join(SubSeq(SegmentsOf(name), 1, Len(SegmentsOf(name)) - 2), "."),
           FromLast(name, 1), FromLast(name, 0), FromLast(name, 2)>>
    ELSE <<join(SubSeq(SegmentsOf(name), 1, Len(SegmentsOf(name)) - 1), "."),
           Empty, FromLast(name, 0), FromLast(name, 1)>>

\* C18: Swagger.parse_schema_name decomposes a name of one, two, and three or
\* more segments as specified, and decomposes x-swagger-router-model in
\* place of the name when the schema carries it
C18_Decomposition ==
    res # <<>> => /\ res[1] = Decomposition(arg)
                  /\ res[3] = Decomposition(arg)

\* a name with a version segment has been parsed
C18_VersionedParsed == res # <<>> /\ pc = "parse" /\ Versioned(arg)

\* C19: for a name of three or more segments whose segment before the last
\* starts with 'v1' or 'v2', joining the parsed namespace, version and kind
\* with '.' gives a name that parses to the same tuple
C19_RoundTrip ==
    (res # <<>> /\ Versioned(arg)) => res[4] = res[1]

\* a versioned name has been parsed, joined and parsed again, and the join
\* is the name itself
C19_Rejoined ==
    /\ pc = "parse"
    /\ res # <<>>
    /\ Versioned(arg)
    /\ res[1][2] # Empty
    /\ Rejoined(res[1]) = arg

Digits == {"0", "1", "2", "3", "4", "5", "6", "7", "8", "9"}

\* the segment is 'v' or 'V' followed by a digit and anything
MatchesVDigit(segment) ==
    Len(segment) >= 2 /\ segment[1] \in {"v", "V"} /\ segment[2] \in Digits

\* C20: the version of a parsed name is not empty exactly when one of its
\* segments is, in either case, 'v' followed by a digit
C20_VersionDetection ==
    res # <<>> =>
        (res[1][2] # Empty <=>
            \E i \in 1..Len(SegmentsOf(arg)) : MatchesVDigit(SegmentsOf(arg)[i]))

\* C20 as amended: the version of a parsed name is not empty exactly when
\* the name has three or more segments and the segment before the last one
\* starts with 'v1' or 'v2', and then it is that segment
C20_VersionIsV1V2 ==
    res # <<>> =>
        /\ res[1][2] # Empty <=> Versioned(arg)
        /\ res[1][2] # Empty => res[1][2] = FromLast(arg, 1)

\* a name with a segment that is 'v' and a digit, but not 'v1' or 'v2' before
\* the last segment, has been parsed without a version
C20_Undetected ==
    /\ pc = "parse"
    /\ res # <<>>
    /\ \E i \in 1..Len(SegmentsOf(arg)) : MatchesVDigit(SegmentsOf(arg)[i])
    /\ ~Versioned(arg)
    /\ res[1][2] = Empty

(***************************************************************************)
(* Documents with schemas that the converter turns down or names twice:    *)
(* schemas whose 'type' is not 'object' or is absent, a schema of a        *)
(* version other than 'v1' in a namespace of its own, names that parse to  *)
(* the same namespace and kind, and a namespace of two segments.  They are *)
(* drawn from their pools as the documents above are from theirs.          *)
(***************************************************************************)
N_Str == <<"p","k","g",".","v","1",".","S","t","r">>
N_Any == <<"p","k","g",".","v","1",".","A","n","y">>
N_Use == <<"p","k","g",".","v","1",".","U","s","e">>
N_Beta == <<"p","k","g","3",".","v","2",".","B","e","t","a">>
N_Deep == <<"x",".","y",".","v","1",".","D","e","e","p">>
N_av1Foo == <<"a",".","v","1",".","F","o","o">>
N_R1 == <<"r",".","v","1",".","O","n","e">>
N_R2 == <<"r",".","v","1",".","T","w","o">>
N_Same == <<"r",".","v","1",".","S","a","m","e">>

EdgeSchemaPool == <<
    <<N_Str, [type |-> T_string,
              properties |-> <<  <<"bar", [ref |-> Ref(N_Bar)]>>  >>]>>,
    <<N_Any, [properties |-> <<  <<"deep", [ref |-> Ref(N_Deep)]>>  >>]>>,
    <<N_Foo, [type |-> T_object,
              properties |-> <<  <<"bar", [ref |-> Ref(N_Bar)]>>  >>]>>,
    <<N_Bar, [type |-> T_object,
              properties |-> <<  <<"size", [type |-> T_integer]>>  >>]>>,
    <<N_Use, [type |-> T_object,
              properties |-> <<  <<"beta", [ref |-> Ref(N_Beta)]>>,
                                 <<"deep", [items |-> [ref |-> Ref(N_Deep)]]>>  >>]>>,
    <<N_Beta, [type |-> T_object]>>,
    <<N_Deep, [type |-> T_object]>>,
    <<N_aFoo, [type |-> T_object]>>,
    <<N_av1Foo, [type |-> T_object]>>,
    <<N_R1, [type |-> T_object, router_model |-> N_Same]>>,
    <<N_R2, [type |-> T_object, router_model |-> N_Same]>>
  >>

EdgePathPool == <<
    <<"/strs", Post(N_Str)>>,
    <<"/anys", Post(N_Any)>>,
    <<"/foos", Post(N_Foo)>>,
    <<"/uses", Post(N_Use)>>,
    <<"/afoos", Post(N_aFoo)>>,
    <<"/av1foos", Post(N_av1Foo)>>,
    <<"/ones", Post(N_R1)>>,
    <<"/twos", Post(N_R2)>>
  >>

\* documents that define pkg.v1.Foo and pkg2.v1.Bar and POST pkg.v1.Foo, one
\* without an Info Object and one without 'swagger' or 'openapi'
EdgeNoInfo ==
    <<  <<K_swagger, Version2>>,
        <<K_definitions, Select(EdgeSchemaPool, {3, 4}, 1)>>,
        <<K_paths, Select(EdgePathPool, {3}, 1)>>  >>
EdgeNoVersion ==
    <<  <<K_info, Info>>,
        <<K_definitions, Select(EdgeSchemaPool, {3, 4}, 1)>>,
        <<K_paths, Select(EdgePathPool, {3}, 1)>>  >>

EdgeDocuments ==
    {Document(defs, paths) : defs \in Choices(EdgeSchemaPool, MaxSchemas),
                             paths \in Choices(EdgePathPool, MaxPaths)}
    \cup {EdgeNoInfo, EdgeNoVersion}

InitEdge ==
    /\ data \in EdgeDocuments
    /\ flavor = "none"
    /\ pc = "main"
    /\ exitcode = 0
    /\ idx = 1
    /\ profiles = <<>>
    /\ node_types = {}
    /\ data_types = {}
    /\ deferred_schemas = {}
    /\ drained = {}
    /\ cur = Empty
    /\ stack = <<>>
    /\ log = {}
    /\ arg = <<>>
    /\ res = <<>>

SpecEdge == InitEdge /\ [][Next]_vars

(***************************************************************************)
(* Schemas that are turned down as node types                              *)
(***************************************************************************)
\* a schema of the document that is not empty and whose 'type' is absent or
\* is not 'object'
InvalidNodeType(n) ==
    /\ HasKey(Schemas, n)
    /\ DOMAIN Get(Schemas, n) # {}
    /\ ~Has(Get(Schemas, n), "type") \/ Get(Schemas, n).type # T_object

\* the pointers for which the path asks for a node type
Requests(value) == BodyRefs(value) \cup PathLevelRefs(value)

\* every pointer of the path leads to a schema that is turned down
OnlyInvalid(value) ==
    /\ Requests(value) # {}
    /\ \A r \in Requests(value) :
          /\ get_referenced_schema(data, r).ret = "tuple"
          /\ InvalidNodeType(get_referenced_schema(data, r).name)

\* C21: the step of process_paths for a path whose POST body is a schema
\* with 'type' absent or not 'object' marks the name as seen, writes no
\* record, defers nothing and goes on to the next path; such a name has no
\* node-type record, and a further request for it changes nothing
C21_InvalidSkipped ==
    /\ [][(pc = "paths" /\ idx <= Len(Paths) /\ OnlyInvalid(Paths[idx][2])) =>
            /\ pc' = "paths"
            /\ idx' = idx + 1
            /\ exitcode' = 0
            /\ profiles' = profiles
            /\ deferred_schemas' = deferred_schemas
            /\ node_types' = node_types \cup Named(Requests(Paths[idx][2]))]_vars
    /\ [](\A n \in node_types : InvalidNodeType(n) =>
            /\ NodeRecordsOf(n) = {}
            /\ SameOutput(create_node_type_from_schema(data, Session, n, Get(Schemas, n)))
            /\ create_node_type_from_schema(data, Session, n, Get(Schemas, n)).deferred_schemas
                  = deferred_schemas)

\* a completed conversion that turned down a schema without 'type' or one of
\* another type and then made a node type for a later path
C21_WentOn ==
    /\ pc = "done"
    /\ \E n \in node_types : InvalidNodeType(n) /\ Props(Get(Schemas, n)) # <<>>
    /\ \E n \in node_types : Cardinality(NodeRecordsOf(n)) = 1

(***************************************************************************)
(* Documents that end the run                                              *)
(***************************************************************************)
\* the document has neither 'swagger' nor 'openapi'
NoVersionKey == ~HasKey(data, K_swagger) /\ ~HasKey(data, K_openapi)

\* no Profile has been initialized and none holds a record
NothingWritten ==
    \A p \in 1..Len(profiles) :
        /\ profiles[p][2].out = "unopened"
        /\ profiles[p][2].node_records = <<>>
        /\ profiles[p][2].data_records = <<>>

\* C22: for a document without 'swagger' and 'openapi' no converter is built
\* and the profile map stays empty, and main() exits with 3; for a document
\* without 'info', convert() does not get past initialize_profiles, no
\* Profile is initialized and no record is emitted, and main() exits with 4
C22_FatalToRun ==
    /\ NoVersionKey =>
          /\ flavor = "none"
          /\ profiles = <<>>
          /\ node_types = {} /\ data_types = {}
          /\ pc \in {"main", "exit"}
          /\ pc = "exit" => exitcode = 3
    /\ (~NoVersionKey /\ ~HasKey(data, K_info)) =>
          /\ pc \in {"main", "collect", "exit"}
          /\ NothingWritten
          /\ node_types = {} /\ data_types = {}
          /\ pc = "exit" => exitcode = 4

\* the conversion of a document without 'info' has ended after dependency
\* collection created a Profile
C22_AbortedAfterCollection ==
    /\ pc = "exit"
    /\ ~NoVersionKey
    /\ ~HasKey(data, K_info)
    /\ profiles # <<>>

(***************************************************************************)
(* Lifecycle.  A run ends in pc = "done", when convert() has returned, or   *)
(* in pc = "exit", when main() has called exit(); in every other state a   *)
(* step is possible.                                                       *)
(***************************************************************************)
\* initialize has been called on a Profile
ProfilesInitialized ==
    \E p \in 1..Len(profiles) : profiles[p][2].out # "unopened"

\* finalize has been called on every Profile, once
Finalized ==
    \A p \in 1..Len(profiles) :
        profiles[p][2].out = "closed" /\ profiles[p][2].closes = 1

\* C23: a conversion whose Profiles were initialized does not end before
\* convert() has returned; when it has, the drain has taken every entry of
\* the Deferred set and finalize has been called once on every Profile, and
\* not before
C23_Finalizes ==
    /\ ProfilesInitialized => pc # "exit"
    /\ pc = "done" => (drained = deferred_schemas /\ Finalized)
    /\ pc # "done" => \A p \in 1..Len(profiles) : profiles[p][2].closes = 0

(***************************************************************************)
(* Deferral                                                                *)
(***************************************************************************)
\* the node-type (data-type) records of the Profile at place p of a profile
\* map: none when the map has no such place
NodeRecords(ps, p) == IF p <= Len(ps) THEN ps[p][2].node_records ELSE <<>>
DataRecords(ps, p) == IF p <= Len(ps) THEN ps[p][2].data_records ELSE <<>>

\* the step writes a node-type (data-type) record
NodeRecordWritten ==
    \E p \in 1..Len(profiles') : NodeRecords(profiles', p) # NodeRecords(profiles, p)
DataRecordWritten ==
    \E p \in 1..Len(profiles') : DataRecords(profiles', p) # DataRecords(profiles, p)

\* the schema names that the properties of the schema n lead to, each by the
\* first of its slots that leads to a schema
FirstSlotNames(n) ==
    {three_slot(data, Props(Get(Schemas, n))[i][2], 1).name :
        i \in {k \in 1..Len(Props(Get(Schemas, n))) :
                  three_slot(data, Props(Get(Schemas, n))[k][2], 1).out = "found"}}

\* C24: node-type records are written by process_paths only, and a step of
\* process_paths writes no data-type record, marks no data type and adds to
\* the Deferred set only schemas that the properties of the node types it
\* made reference; data-type records are written by the drain only, and a
\* step of the drain changes neither the Deferred set nor node_types nor a
\* node-type record
C24_DeferralOrdering ==
    [][/\ NodeRecordWritten => pc = "paths"
       /\ DataRecordWritten => pc = "deferred"
       /\ pc = "paths" =>
             /\ data_types' = data_types
             /\ deferred_schemas \subseteq deferred_schemas'
             /\ \A d \in deferred_schemas' \ deferred_schemas :
                   \E n \in node_types' \ node_types :
                       HasKey(Schemas, n) /\ d \in FirstSlotNames(n)
       /\ pc = "deferred" =>
             /\ deferred_schemas' = deferred_schemas
             /\ node_types' = node_types
             /\ ~NodeRecordWritten]_vars

\* a completed conversion that deferred a schema and wrote a node-type
\* record and a data-type record
C24_BothWritten ==
    /\ pc = "done"
    /\ deferred_schemas # {}
    /\ \E p \in 1..Len(profiles) : profiles[p][2].node_records # <<>>
    /\ \E p \in 1..Len(profiles) : profiles[p][2].data_records # <<>>

(***************************************************************************)
(* The three slots                                                         *)
(***************************************************************************)
\* the slots of the property that the call f is at which were tried before
\* the slot it is at, and led to a schema
ResolvedBefore(f) ==
    {s \in 1..(f.s - 1) :
        TrySlot(data, Props(f.schema)[f.i][2], Slots[s]).out = "found"}

\* C25: a property gives one referenced schema, that of the first of '$ref',
\* items.'$ref' and additionalProperties.'$ref' that leads to a schema: no
\* call of create_data_type_from_schema is at a slot of a property of which
\* an earlier slot led to a schema, every deferred schema is the one of the
\* first such slot of a property of a node type, and so is the schema behind
\* every dependency
C25_OneReference ==
    /\ \A k \in 1..Len(stack) :
          stack[k].i <= Len(Props(stack[k].schema)) => ResolvedBefore(stack[k]) = {}
    /\ deferred_schemas \subseteq
          UNION {FirstSlotNames(n) : n \in node_types \cap Keys(Schemas)}
    /\ \A p \in 1..Len(profiles) :
          Keys(profiles[p][2].dependencies) \subseteq OwnedReferences(profiles[p][1])

(***************************************************************************)
(* The Profile of an emitted record                                        *)
(***************************************************************************)
\* the namespace that a call of create_data_type_from_schema emits into
FrameNamespace(f) == Swagger_parse_schema_name(f.schema_name, f.schema)[1]

\* C26: every schema that create_node_type_from_schema does not turn down
\* has a Profile for its namespace in the profile map, and so has every
\* schema that a call of create_data_type_from_schema in progress is to emit
C26_ProfileFound ==
    /\ \A n \in node_types : ValidNodeType(n) => HasKey(profiles, NamespaceOf(n))
    /\ \A k \in 1..Len(stack) : HasKey(profiles, FrameNamespace(stack[k]))

(***************************************************************************)
(* Qualified type names and imports                                        *)
(***************************************************************************)
\* the type names among the entries written under a type or a property: its
\* 'type' and its 'entry_schema'
TypeNamesIn(entries) ==
    {entries[l][2] : l \in {k \in 1..Len(entries) :
                                entries[k][1] \in {"type", "entry_schema"}}}

\* the type names written in a record: its own and those of its properties
RecordTypeNames(rec) ==
    TypeNamesIn(rec.entries)
    \cup UNION {UNION {TypeNamesIn(rec.entries[k][2][q].entries) :
                          q \in 1..Len(rec.entries[k][2])} :
                   k \in {l \in 1..Len(rec.entries) : rec.entries[l][1] = "properties"}}

\* the type names written in the records of a Profile
ProfileTypeNames(profile) ==
    UNION {RecordTypeNames(profile.node_records[i]) : i \in 1..Len(profile.node_records)}
    \cup UNION {RecordTypeNames(profile.data_records[i]) : i \in 1..Len(profile.data_records)}

\* a type name of the form prefix:Kind, and its prefix
IsQualified(t) == \E i \in 1..Len(t) : t[i] = ":"
PrefixOf(t) == SubSeq(t, 1, FirstIndex(t, ":") - 1)

\* the prefixes under which a Profile imports its dependencies
ImportPrefixes(profile) ==
    {profile.dependencies[d][2] : d \in 1..Len(profile.dependencies)}

\* C27: the prefix of every qualified type name written in a record of a
\* Profile is the prefix of one of the dependencies of that Profile
C27_PrefixImported ==
    \A p \in 1..Len(profiles) :
        \A t \in ProfileTypeNames(profiles[p][2]) :
            IsQualified(t) => PrefixOf(t) \in ImportPrefixes(profiles[p][2])

(***************************************************************************)
(* Dependencies and the profile map                                        *)
(***************************************************************************)
\* C28: once dependency collection is done, every namespace that a Profile
\* depends on has a Profile of its own in the profile map
C28_TargetsExist ==
    CollectionDone =>
        \A p \in 1..Len(profiles) :
            Keys(profiles[p][2].dependencies) \subseteq Keys(profiles)

\* the kinds of the records of a bucket are distinct
DistinctKinds(records) ==
    \A i, j \in 1..Len(records) : records[i].kind = records[j].kind => i = j

\* C29: in every Profile no two node-type records have the same type name,
\* and no two data-type records have the same type name
C29_UniqueTypeNames ==
    \A p \in 1..Len(profiles) :
        /\ DistinctKinds(profiles[p][2].node_records)
        /\ DistinctKinds(profiles[p][2].data_records)

\* the last of the segments of a namespace
LastSegment(ns) == split(ns, ".")[Len(split(ns, "."))]

\* C30: the prefix of every dependency that collection records is the last
\* segment of the namespace depended on, and add_dependency never logs a
\* conflict of prefixes
C30_PrefixOfNamespace ==
    /\ \A p \in 1..Len(profiles) :
          \A d \in 1..Len(profiles[p][2].dependencies) :
              profiles[p][2].dependencies[d][2]
                  = LastSegment(profiles[p][2].dependencies[d][1])
    /\ \A e \in log : e[2] # "prefix conflicts"

\* collection is done; two schemas of one namespace reference a namespace of
\* two segments, which their Profile depends on
C30_SharedTarget ==
    /\ CollectionDone
    /\ \E n, m \in Keys(Schemas) :
          /\ n # m /\ Collected(n) /\ Collected(m)
          /\ NamespaceOf(n) = NamespaceOf(m)
          /\ \E b \in ReferencedNamespaces(n) \cap ReferencedNamespaces(m) :
                /\ Len(split(b, ".")) = 2
                /\ HasKey(Get(profiles, NamespaceOf(n)).dependencies, b)

====
